---- MODULE Spec2Model ----
\* Verification model of the scraping-checks-scheduler acquisition core
\* (src/src/index.js).  Six specifications share the variables below:
\*   Spec, FairSpec  the sitemap resolver (fetchSitemapUrls), one step per fetch
\*   NormSpec        the value normalizer (normalizeValue) over JSON-like values
\*   DiffSpec        simpleDiff over pairs of snapshots
\*   RetrySpec       withRetry and fetchTextMaybeGzip
\*   TableSpec       the table-row extraction of runPsaPriceRow / runPsaPopRow
\*   RunSpec         the run loop (run), over successive scheduled runs
\* Each specification starts the parts it does not exercise in their idle state.
EXTENDS Integers, Sequences, FiniteSets, TLC

\* ------------------------------------------------------------------
\* Bounds of the model
\* ------------------------------------------------------------------
MaxLocs == 2
MaxSitemaps == 2
MaxLimit == 2
MaxIndexLimit == 2
MaxStrLen == 3
MaxNodes == 4
MaxElems == 2
MaxTries == 3
MaxTables == 2
MaxRuns == 2

\* ------------------------------------------------------------------
\* URLs, locations and documents
\* ------------------------------------------------------------------
\* A URL is <<host, path>>.  A location found in a document is a URL, or a
\* relative reference <<"", path>> (empty host).
Seed == <<"a", "s">>
LocSet == {<<"", "p">>, <<"a", "s">>, <<"b", "s">>}
SitemapDirectives == {<<"a", "s">>, <<"b", "s">>, <<"b", "t">>}
ErrStatuses == {404, 500}
NoUrl == <<"", "">>

SeqsUpTo(S, n) == UNION {[1..k -> S] : k \in 0..n}

\* A fetched document, abstracted to what the code extracts from it: whether
\* the fetch succeeded (res.ok, no transport error), the HTTP status of a
\* failure, the <sitemapindex> marker, the <loc> contents in document order
\* and the "Sitemap:" directives in document order.
Xml(isIndex, locs) ==
  [ok |-> TRUE, status |-> 200, isIndex |-> isIndex, locs |-> locs, sitemaps |-> <<>>]
RobotsTxt(sitemaps) ==
  [ok |-> TRUE, status |-> 200, isIndex |-> FALSE, locs |-> <<>>, sitemaps |-> sitemaps]
FailDoc(status) ==
  [ok |-> FALSE, status |-> status, isIndex |-> FALSE, locs |-> <<>>, sitemaps |-> <<>>]

XmlDocs == {Xml(ix, l) : ix \in BOOLEAN, l \in SeqsUpTo(LocSet, MaxLocs)}
FailDocs == {FailDoc(st) : st \in ErrStatuses}
RobotsDocs == {RobotsTxt(sm) : sm \in SeqsUpTo(SitemapDirectives, MaxSitemaps)} \cup {FailDoc(404)}

VARIABLES
  docs,        \* the web: URL -> document (a URL outside the domain answers 404)
  url,         \* fetchSitemapUrls parameter: the seed URL
  indexLimit,  \* option indexLimit
  limit,       \* option limit; 0 stands for undefined (falsy in the code)
  pc,          \* position in fetchSitemapUrls
  queue,       \* const queue
  tried,       \* const tried
  firstError,  \* let firstError; 0 stands for null
  cur,         \* const cur
  child,       \* const child (resolved child sitemaps of the index)
  ci,          \* position of the for-of loop over child
  all,         \* const all
  result,      \* the returned value
  thrown,      \* the status carried by the thrown error
  fetchLog,    \* history: every fetchTextMaybeGzip call <<kind, url>>, in order
  errLog,      \* history: every error caught by the outer catch, in order
  robotsCalls, \* history: number of discoverSitemapsFromRobots calls
  nphase,      \* normalizer harness: "idle", "input", "once" or "twice"
  nv,          \* the value v given to normalizeValue
  nv1,         \* normalizeValue(v)
  nv2,         \* normalizeValue applied to nv1
  dphase,      \* diff harness: "idle", "input" or "done"
  da,          \* simpleDiff parameter a (the previous snapshot)
  db,          \* simpleDiff parameter b (the current snapshot)
  dignore,     \* simpleDiff parameter ignore
  dchanged,    \* the array simpleDiff returned
  fcaller,     \* retry model: "idle", "withRetry" (a direct call) or "fetchTextMaybeGzip"
  furl,        \* fetchTextMaybeGzip parameter url (its path, as characters)
  ftries,      \* withRetry option tries
  fbaseMs,     \* withRetry option baseMs
  fi,          \* let i of the retry loop
  fpc,         \* position: "call", "delay", "returned", "thrown", "text", "httpError", ...
  flastErr,    \* let lastErr; "" stands for undefined
  fvalue,      \* the value withRetry returned (a response)
  fresult,     \* the text fetchTextMaybeGzip returned
  fcalls,      \* history: the outcome (TRUE = resolved) of every fn() call, in order
  fdelays,     \* history: every delay(ms) awaited, in order
  tcheck,      \* table-row check: its type, column (gradeCol / column) and rowMatch
  thtml,       \* the fetched HTML: whether the fetch succeeded, its tables in document order
  tdom,        \* the tables of the rendered page, in document order
  tpc,         \* position: "idle", "html", "playwright", "returned" or "thrown"
  ttarget,     \* history: the table pickTableWithColumn returned last (0: none)
  tresult,     \* the returned payload
  terror,      \* the message of the thrown error
  GROUP,       \* process.env.GROUP || "" of the running process
  WEBHOOK_URL, \* whether process.env.WEBHOOK_URL is set
  FAIL_ON_ERROR, \* process.env.FAIL_ON_ERROR === "1"
  latest,      \* data/latest: check name -> the record in <name>.json, or NoFile
  history,     \* data/history: the set of <<name, stamp, record>> files
  series,      \* data/timeseries: check name -> the lines of series.jsonl
  reports,     \* data/report-<group>.json: group -> the summary written last
  posts,       \* every webhook POST body sent, in order
  summary,     \* const summary of run()
  hadError,    \* let hadError of run()
  rphase,      \* position in run(): "idle", "loop" or "exited"
  rpos,        \* position of the for-of loop over todo
  exitCode,    \* the exit status of the process once it has exited
  runNo,       \* the number of the running process (scheduled runs, in order)
  now,         \* the clock: startedAt of the next check
  rlog,        \* history: what each check of this run did (name, startedAt, outcome, prev)
  seen         \* history: <<startedAt, all>> of every sitemap a sitemap_diff check resolved

resolverVars == <<docs, url, indexLimit, limit, pc, queue, tried, firstError, cur,
                  child, ci, all, result, thrown, fetchLog, errLog, robotsCalls>>
normVars == <<nphase, nv, nv1, nv2>>
diffVars == <<dphase, da, db, dignore, dchanged>>
retryVars == <<fcaller, furl, ftries, fbaseMs, fi, fpc, flastErr, fvalue, fresult,
               fcalls, fdelays>>
tableVars == <<tcheck, thtml, tdom, tpc, ttarget, tresult, terror>>
runVars == <<GROUP, WEBHOOK_URL, FAIL_ON_ERROR, latest, history, series, reports, posts,
             summary, hadError, rphase, rpos, exitCode, runNo, now, rlog, seen>>
extVars == <<diffVars, retryVars, tableVars, runVars>>
vars == <<resolverVars, normVars, extVars>>

\* ------------------------------------------------------------------
\* Helpers of the resolver
\* ------------------------------------------------------------------
\* variant: one element more than asked for
sliceOneMore(s, n) == IF Len(s) <= n + 1 THEN s ELSE SubSeq(s, 1, n + 1)

\* s.slice(0, n)
slice(s, n) == IF Len(s) <= n THEN s ELSE SubSeq(s, 1, n)

\* fetchTextMaybeGzip(u): the document, or a failure (throw)
fetchTextMaybeGzip(u) == IF u \in DOMAIN docs THEN docs[u] ELSE FailDoc(404)

\* extractLocsFromXml(xml)
extractLocsFromXml(xml) == [isIndex |-> xml.isIndex, locs |-> xml.locs]

\* new URL(child, base).href
resolve(loc, base) == IF loc[1] = "" THEN <<base[1], loc[2]>> ELSE loc

\* `${u.protocol}//${u.host}/robots.txt`
robotsUrl(startUrl) == <<startUrl[1], "robots.txt">>

\* variant: only the first directive is taken (match instead of matchAll)
discoverFirstOnly(startUrl) ==
  LET text == fetchTextMaybeGzip(robotsUrl(startUrl))
  IN IF text.ok THEN slice(text.sitemaps, 1) ELSE <<>>

\* discoverSitemapsFromRobots(startUrl): [] when the fetch fails
discoverSitemapsFromRobots(startUrl) ==
  LET text == fetchTextMaybeGzip(robotsUrl(startUrl))
  IN IF text.ok THEN text.sitemaps ELSE <<>>

\* s.map(resolve) with resolve closed over base
mapResolve(s, base) == [k \in 1..Len(s) |-> resolve(s[k], base)]

\* variant: the visited check is missing
triedHasNever(t, u) == FALSE

\* tried.has(u)
triedHas(t, u) == u \in t

\* variant: the last error overwrites the first
keepLastError(old, e) == e

\* if (!firstError) firstError = e
keepFirstError(old, e) == IF old = 0 THEN e ELSE old

\* variant: discovery whenever the queue is empty
shouldDiscoverAlways(q, t) == Len(q) = 0

\* queue.length === 0 && tried.size === 1
shouldDiscover(q, t) == Len(q) = 0 /\ Cardinality(t) = 1

\* variant: the loop over the children never breaks
limitNeverReached(a, lim) == FALSE

\* limit && all.length >= limit
limitReached(a, lim) == lim # 0 /\ Len(a) >= lim

\* variant: the limit is not applied
truncateNothing(s, lim) == s

\* limit ? s.slice(0, limit) : s
truncate(s, lim) == IF lim # 0 THEN slice(s, lim) ELSE s

\* variant: a failed child fetch leaves the inner try and reaches the outer catch
childErrorEscapesOnFailure(ok) == ~ok

\* try { ... } catch { /* ignore bad child */ }: nothing leaves the inner try
childErrorEscapes(ok) == FALSE

\* the bound that keeps the history finite; never reached by the code
MaxFetches == MaxSitemaps + MaxIndexLimit + 20

\* ------------------------------------------------------------------
\* Initial states
\* ------------------------------------------------------------------
Start ==
  /\ pc = "loop"
  /\ queue = <<url>>
  /\ tried = {}
  /\ firstError = 0
  /\ cur = NoUrl
  /\ child = <<>>
  /\ ci = 0
  /\ all = <<>>
  /\ result = [source |-> NoUrl, urls |-> <<>>]
  /\ thrown = 0
  /\ fetchLog = <<>>
  /\ errLog = <<>>
  /\ robotsCalls = 0

\* the normalizer harness is not running
NormIdle ==
  /\ nphase = "idle"
  /\ nv = <<"null", <<>>>>
  /\ nv1 = <<"null", <<>>>>
  /\ nv2 = <<"null", <<>>>>

\* the diff harness is not running
DiffIdle ==
  /\ dphase = "idle"
  /\ da = <<"undef", <<>>>>
  /\ db = <<"undef", <<>>>>
  /\ dignore = <<>>
  /\ dchanged = <<>>

\* no withRetry call is in progress
RetryIdle ==
  /\ fcaller = "idle"
  /\ furl = <<>>
  /\ ftries = 0
  /\ fbaseMs = 0
  /\ fi = 0
  /\ fpc = "idle"
  /\ flastErr = ""
  /\ fvalue = [ok |-> FALSE, status |-> 0, ct |-> "", ce |-> "",
               buf |-> [len |-> 0, b0 |-> 0, b1 |-> 0, text |-> "", inflated |-> ""]]
  /\ fresult = ""
  /\ fcalls = <<>>
  /\ fdelays = <<>>

\* no table-row check is running
NoCheck == [type |-> "", column |-> <<>>, rowMatch |-> <<>>]
NoPayload == [row |-> <<>>, raw |-> <<>>, value |-> <<"null", <<>>>>, mode |-> ""]
TableIdle ==
  /\ tcheck = NoCheck
  /\ thtml = [ok |-> FALSE, tables |-> <<>>]
  /\ tdom = <<>>
  /\ tpc = "idle"
  /\ ttarget = 0
  /\ tresult = NoPayload
  /\ terror = ""

\* the configured checks, in list order (name, type, group, ignoreKeys)
checks ==
  <<[name |-> "p", type |-> "price", group |-> "price", ignoreKeys |-> <<<<"r", "a", "w">>>>],
    [name |-> "s", type |-> "sitemap_diff", group |-> "seo", ignoreKeys |-> <<>>],
    [name |-> "a", type |-> "availability", group |-> "price", ignoreKeys |-> <<>>]>>
CheckNames == {checks[k].name : k \in 1..Len(checks)}
Groups == {checks[k].group : k \in 1..Len(checks)}
\* readJson of a missing file gives null
NoFile == [name |-> "", type |-> "", checkedAt |-> 0, data |-> <<"undef", <<>>>>, error |-> ""]

\* no process is running and the data directory is empty
RunIdle ==
  /\ GROUP = ""
  /\ WEBHOOK_URL = FALSE
  /\ FAIL_ON_ERROR = FALSE
  /\ latest = [n \in CheckNames |-> NoFile]
  /\ history = {}
  /\ series = [n \in CheckNames |-> <<>>]
  /\ reports = [g \in Groups \cup {"all"} |-> <<>>]
  /\ posts = <<>>
  /\ summary = <<>>
  /\ hadError = FALSE
  /\ rphase = "idle"
  /\ rpos = 0
  /\ exitCode = 0
  /\ runNo = 0
  /\ now = 0
  /\ rlog = <<>>
  /\ seen = {}

\* The webs of at most two sitemap documents and one robots.txt.  In the first
\* three families a document that no run can fetch is left out of the web (it
\* answers 404): robots.txt is fetched only after the seed fetch failed, and
\* the other sitemap only when the seed is an index or robots.txt may list it.
Other == <<"b", "s">>
UrlsetWorlds ==
  {[u \in {Seed} |-> d] : d \in {Xml(FALSE, l) : l \in SeqsUpTo(LocSet, MaxLocs)}}
IndexWorlds ==
  {[u \in {Seed, Other} |-> IF u = Seed THEN d ELSE e] :
     d \in {Xml(TRUE, l) : l \in SeqsUpTo(LocSet, MaxLocs)},
     e \in XmlDocs \cup FailDocs}
FailWorlds ==
  {[u \in {Seed, Other, robotsUrl(Seed)} |->
      IF u = Seed THEN d ELSE IF u = Other THEN e ELSE r] :
     d \in FailDocs, e \in XmlDocs \cup FailDocs, r \in RobotsDocs}
\* the seed is fetched and holds no location, while robots.txt of its host
\* lists sitemaps and the other sitemap is a urlset of one URL
EmptySeedWorlds ==
  {[u \in {Seed, Other, robotsUrl(Seed)} |->
      IF u = Seed THEN Xml(FALSE, <<>>)
      ELSE IF u = Other THEN Xml(FALSE, <<<<"", "p">>>>) ELSE r] :
     r \in RobotsDocs}
SmallWorlds == UrlsetWorlds \cup IndexWorlds \cup FailWorlds \cup EmptySeedWorlds

\* the worked example: an index of 3 child urlsets of 10 URLs each
PageNames == <<"p1", "p2", "p3", "p4", "p5", "p6", "p7", "p8", "p9", "p10">>
ExampleChildren == <<<<"c1", "s">>, <<"c2", "s">>, <<"c3", "s">>>>
ExampleWorld ==
  [u \in {Seed} \cup {ExampleChildren[k] : k \in 1..3} |->
     IF u = Seed THEN Xml(TRUE, ExampleChildren)
     ELSE Xml(FALSE, [k \in 1..10 |-> <<u[1], PageNames[k]>>])]

\* indexLimit: check.indexLimit || 5 (0 stands for an option left out)
DefaultIndexLimit == 5
indexLimitOption(configured) == IF configured = 0 THEN DefaultIndexLimit ELSE configured

\* an index of six children, one more than the default indexLimit: the second
\* child is itself an index (of a urlset that exists), the others are urlsets
\* of one URL
ChildHosts == <<"c1", "c2", "c3", "c4", "c5", "c6">>
SixChildren == [k \in 1..Len(ChildHosts) |-> <<ChildHosts[k], "s">>]
Grandchild == <<"g", "s">>
SixChildrenWorld ==
  [u \in {Seed, Grandchild} \cup {SixChildren[k] : k \in 1..Len(SixChildren)} |->
     IF u = Seed THEN Xml(TRUE, SixChildren)
     ELSE IF u = SixChildren[2] THEN Xml(TRUE, <<Grandchild>>)
     ELSE Xml(FALSE, <<<<u[1], "p1">>>>)]

Init ==
  /\ url = Seed
  /\ \/ /\ docs \in SmallWorlds
        /\ indexLimit \in 1..MaxIndexLimit
        /\ limit \in 0..MaxLimit
     \/ /\ docs = ExampleWorld
        /\ indexLimit = 5
        /\ limit = 15
     \/ /\ docs = SixChildrenWorld
        /\ indexLimit = indexLimitOption(0)
        /\ limit = 0
  /\ Start
  /\ NormIdle
  /\ DiffIdle
  /\ RetryIdle
  /\ TableIdle
  /\ RunIdle

\* ------------------------------------------------------------------
\* Steps of fetchSitemapUrls
\* ------------------------------------------------------------------
\* return { source, urls }
Return(src, urls) ==
  /\ result' = [source |-> src, urls |-> urls]
  /\ pc' = "done"

\* while (queue.length) { cur = queue.shift(); if (tried.has(cur)) continue;
LoopSkip ==
  /\ pc = "loop"
  /\ Len(queue) > 0
  /\ triedHas(tried, Head(queue))
  /\ cur' = Head(queue)
  /\ queue' = Tail(queue)
  /\ UNCHANGED <<docs, url, indexLimit, limit, pc, tried, firstError, child, ci,
                 all, result, thrown, fetchLog, errLog, robotsCalls, normVars, extVars>>

\* ... tried.add(cur);
LoopTake ==
  /\ pc = "loop"
  /\ Len(queue) > 0
  /\ ~triedHas(tried, Head(queue))
  /\ cur' = Head(queue)
  /\ queue' = Tail(queue)
  /\ tried' = tried \cup {Head(queue)}
  /\ pc' = "fetch"
  /\ UNCHANGED <<docs, url, indexLimit, limit, firstError, child, ci, all,
                 result, thrown, fetchLog, errLog, robotsCalls, normVars, extVars>>

\* const xml = await fetchTextMaybeGzip(cur), then the branch taken up to the
\* next fetch, return or catch
FetchCur ==
  /\ pc = "fetch"
  /\ Len(fetchLog) < MaxFetches
  /\ fetchLog' = Append(fetchLog, <<"queue", cur>>)
  /\ LET xml == fetchTextMaybeGzip(cur)
         ex == extractLocsFromXml(xml)
     IN IF ~xml.ok
        THEN \* catch (e)
          /\ firstError' = keepFirstError(firstError, xml.status)
          /\ errLog' = Append(errLog, xml.status)
          /\ pc' = IF shouldDiscover(queue, tried) THEN "robots" ELSE "loop"
          /\ UNCHANGED <<child, ci, all, result>>
        ELSE IF ex.isIndex
        THEN
          /\ child' = mapResolve(slice(ex.locs, indexLimit), cur)
          /\ all' = <<>>
          /\ ci' = 1
          /\ IF Len(slice(ex.locs, indexLimit)) = 0
             THEN Return(cur, <<>>)
             ELSE pc' = "child" /\ UNCHANGED result
          /\ UNCHANGED <<firstError, errLog>>
        ELSE
          /\ Return(cur, mapResolve(truncate(ex.locs, limit), cur))
          /\ UNCHANGED <<firstError, errLog, child, ci, all>>
  /\ UNCHANGED <<docs, url, indexLimit, limit, queue, tried, cur, thrown, robotsCalls,
                 normVars, extVars>>

\* one iteration of for (const sm of child)
FetchChild ==
  /\ pc = "child"
  /\ Len(fetchLog) < MaxFetches
  /\ LET sm == child[ci]
         subXml == fetchTextMaybeGzip(sm)
         sub == extractLocsFromXml(subXml)
         all2 == IF subXml.ok /\ ~sub.isIndex
                 THEN all \o mapResolve(sub.locs, cur)
                 ELSE all
     IN /\ fetchLog' = Append(fetchLog, <<"child", sm>>)
        /\ IF childErrorEscapes(subXml.ok)
           THEN \* the outer catch (e)
             /\ firstError' = keepFirstError(firstError, subXml.status)
             /\ errLog' = Append(errLog, subXml.status)
             /\ pc' = IF shouldDiscover(queue, tried) THEN "robots" ELSE "loop"
             /\ UNCHANGED <<all, ci, result>>
           ELSE
             /\ all' = all2
             /\ IF limitReached(all2, limit) \/ ci = Len(child)
                THEN Return(cur, truncate(all2, limit)) /\ UNCHANGED ci
                ELSE ci' = ci + 1 /\ UNCHANGED <<pc, result>>
             /\ UNCHANGED <<firstError, errLog>>
  /\ UNCHANGED <<docs, url, indexLimit, limit, queue, tried, cur,
                 child, thrown, robotsCalls, normVars, extVars>>

\* const discovered = await discoverSitemapsFromRobots(url); queue.push(...)
Discover ==
  /\ pc = "robots"
  /\ Len(fetchLog) < MaxFetches
  /\ robotsCalls' = robotsCalls + 1
  /\ fetchLog' = Append(fetchLog, <<"robots", robotsUrl(url)>>)
  /\ queue' = queue \o discoverSitemapsFromRobots(url)
  /\ pc' = "loop"
  /\ UNCHANGED <<docs, url, indexLimit, limit, tried, firstError, cur, child,
                 ci, all, result, thrown, errLog, normVars, extVars>>

\* the queue is empty: throw new Error(`Sitemap fetch failed: ${err}`)
Throw ==
  /\ pc = "loop"
  /\ Len(queue) = 0
  /\ thrown' = firstError
  /\ pc' = "failed"
  /\ UNCHANGED <<docs, url, indexLimit, limit, queue, tried, firstError, cur,
                 child, ci, all, result, fetchLog, errLog, robotsCalls, normVars, extVars>>

Next == LoopSkip \/ LoopTake \/ FetchCur \/ FetchChild \/ Discover \/ Throw

Spec == Init /\ [][Next]_vars

FairSpec == Spec /\ WF_vars(Next)

\* ------------------------------------------------------------------
\* JSON-like values and normalizeValue
\* ------------------------------------------------------------------
\* A value is <<tag, payload>>.  A string is the sequence of its characters;
\* a number is the sequence of characters of its decimal form (String(n));
\* an array is the sequence of its elements; an object is the sequence of its
\* <<key, value>> entries in property order.
Str(chars) == <<"str", chars>>
Num(chars) == <<"num", chars>>
Bool(b) == <<"bool", b>>
Null == <<"null", <<>>>>
Arr(elems) == <<"arr", elems>>
Obj(entries) == <<"obj", entries>>

Digits == {"0", "1", "2", "3", "4", "5", "6", "7", "8", "9"}
Whitespace == {" ", "\n"}

\* the characters in increasing UTF-16 code unit order
CharOrder ==
  <<"\n", " ", "$", ",", "-", ".", "0", "1", "2", "3", "4", "5", "6", "7", "8",
    "9", "C", "N", "O", "[", "]", "a", "b", "c", "d", "e", "f", "i", "j", "l", "m", "n",
    "o", "p", "r", "s", "t", "u", "v", "w">>
Code(c) == CHOOSE k \in 1..Len(CharOrder) : CharOrder[k] = c

\* a < b for strings, by code units
RECURSIVE lexLess(_, _)
lexLess(a, b) ==
  IF b = <<>> THEN FALSE
  ELSE IF a = <<>> THEN TRUE
  ELSE IF a[1] # b[1] THEN Code(a[1]) < Code(b[1])
  ELSE lexLess(Tail(a), Tail(b))

\* v.replace(/\s+/g, " "): every run of whitespace becomes one space
RECURSIVE collapseWhitespace(_)
collapseWhitespace(s) ==
  IF s = <<>> THEN <<>>
  ELSE IF s[1] \in Whitespace
       THEN IF Len(s) > 1 /\ s[2] \in Whitespace
            THEN collapseWhitespace(Tail(s))
            ELSE <<" ">> \o collapseWhitespace(Tail(s))
       ELSE <<s[1]>> \o collapseWhitespace(Tail(s))

\* .trim()
RECURSIVE trimStart(_)
trimStart(s) == IF s # <<>> /\ s[1] \in Whitespace THEN trimStart(Tail(s)) ELSE s
RECURSIVE trimEnd(_)
trimEnd(s) ==
  IF s # <<>> /\ s[Len(s)] \in Whitespace THEN trimEnd(SubSeq(s, 1, Len(s) - 1)) ELSE s
trim(s) == trimEnd(trimStart(s))

\* trimmed.replace(/[^\d.,-]/g, "")
numericResidue(s) == SelectSeq(s, LAMBDA c : c \in Digits \cup {".", ",", "-"})

\* /\d/.test(s)
hasDigit(s) == \E k \in 1..Len(s) : s[k] \in Digits

\* num.replace(/,/g, "")
removeCommas(s) == SelectSeq(s, LAMBDA c : c # ",")

RECURSIVE stripLeadingZeros(_)
stripLeadingZeros(s) == IF s # <<>> /\ s[1] = "0" THEN stripLeadingZeros(Tail(s)) ELSE s
RECURSIVE stripTrailingZeros(_)
stripTrailingZeros(s) ==
  IF s # <<>> /\ s[Len(s)] = "0" THEN stripTrailingZeros(SubSeq(s, 1, Len(s) - 1)) ELSE s

\* Number(s) for s made of digits, "." and "-": the literal is
\* [-] digits [. digits] with at least one digit; anything else is NaN
unsignedPart(s) == IF s # <<>> /\ s[1] = "-" THEN Tail(s) ELSE s
isNaNLiteral(s) ==
  LET body == unsignedPart(s)
  IN \/ \E k \in 1..Len(body) : body[k] = "-"
     \/ Cardinality({k \in 1..Len(body) : body[k] = "."}) > 1
     \/ ~hasDigit(body)
\* the decimal form of Number(s), as String(n) prints it
toNumber(s) ==
  LET body == unsignedPart(s)
      dots == {k \in 1..Len(body) : body[k] = "."}
      dot == IF dots = {} THEN Len(body) + 1 ELSE CHOOSE k \in dots : TRUE
      int == stripLeadingZeros(SubSeq(body, 1, dot - 1))
      frac == stripTrailingZeros(SubSeq(body, dot + 1, Len(body)))
      zero == int = <<>> /\ frac = <<>>
  IN (IF s # <<>> /\ s[1] = "-" /\ ~zero THEN <<"-">> ELSE <<>>)
     \o (IF int = <<>> THEN <<"0">> ELSE int)
     \o (IF frac = <<>> THEN <<>> ELSE <<".">> \o frac)

\* String(v), the key Array.prototype.sort() compares when no comparator is
\* given; Array.prototype.join prints null as the empty string
RECURSIVE toString(_)
RECURSIVE joinElems(_)
joinElems(elems) ==
  IF elems = <<>> THEN <<>>
  ELSE LET h == elems[1]
           hs == IF h[1] = "null" THEN <<>> ELSE toString(h)
       IN IF Len(elems) = 1 THEN hs ELSE hs \o <<",">> \o joinElems(Tail(elems))
toString(v) ==
  CASE v[1] = "str" -> v[2]
    [] v[1] = "num" -> v[2]
    [] v[1] = "bool" -> IF v[2] THEN <<"t", "r", "u", "e">> ELSE <<"f", "a", "l", "s", "e">>
    [] v[1] = "null" -> <<"n", "u", "l", "l">>
    [] v[1] = "arr" -> joinElems(v[2])
    [] v[1] = "obj" -> <<"[", "o", "b", "j", "e", "c", "t", " ", "O", "b", "j", "e", "c", "t", "]">>

\* one insertion of the stable sort: x goes before the first element whose
\* string is greater than its own
RECURSIVE insertSorted(_, _)
insertSorted(sorted, x) ==
  IF sorted = <<>> THEN <<x>>
  ELSE IF lexLess(toString(x), toString(sorted[1]))
       THEN <<x>> \o sorted
       ELSE <<sorted[1]>> \o insertSorted(Tail(sorted), x)

\* elems.sort(): stable, by String(element)
RECURSIVE sortDefault(_)
sortDefault(elems) ==
  IF elems = <<>> THEN <<>>
  ELSE insertSorted(sortDefault(SubSeq(elems, 1, Len(elems) - 1)), elems[Len(elems)])

\* the entries of an object in the order of Object.keys(v).sort()
RECURSIVE insertEntry(_, _)
insertEntry(sorted, e) ==
  IF sorted = <<>> THEN <<e>>
  ELSE IF lexLess(e[1], sorted[1][1])
       THEN <<e>> \o sorted
       ELSE <<sorted[1]>> \o insertEntry(Tail(sorted), e)
RECURSIVE sortEntries(_)
sortEntries(entries) ==
  IF entries = <<>> THEN <<>>
  ELSE insertEntry(sortEntries(SubSeq(entries, 1, Len(entries) - 1)), entries[Len(entries)])

\* variant: the Number.isNaN guard is missing
normalizeStringUnguarded(chars) ==
  LET trimmed == trim(collapseWhitespace(chars))
      num == numericResidue(trimmed)
  IN IF hasDigit(num)
     THEN Num(IF isNaNLiteral(removeCommas(num)) THEN <<"N", "a", "N">>
              ELSE toNumber(removeCommas(num)))
     ELSE Str(trimmed)

\* normalizeValue, the string branch
normalizeString(chars) ==
  LET trimmed == trim(collapseWhitespace(chars))
      num == numericResidue(trimmed)
  IN IF hasDigit(num) /\ ~isNaNLiteral(removeCommas(num))
     THEN Num(toNumber(removeCommas(num)))
     ELSE Str(trimmed)

RECURSIVE normalizeValue(_)

\* variant: the array is sorted before its elements are normalized
normalizeArraySortFirst(elems) ==
  LET sorted == sortDefault(elems)
  IN [k \in 1..Len(sorted) |-> normalizeValue(sorted[k])]

\* v.map(normalizeValue).sort()
normalizeArray(elems) ==
  sortDefault([k \in 1..Len(elems) |-> normalizeValue(elems[k])])

normalizeValue(v) ==
  CASE v[1] = "str" -> normalizeString(v[2])
    [] v[1] = "arr" -> Arr(normalizeArray(v[2]))
    [] v[1] = "obj" ->
         Obj(sortEntries([k \in 1..Len(v[2]) |-> <<v[2][k][1], normalizeValue(v[2][k][2])>>]))
    [] OTHER -> v

\* ------------------------------------------------------------------
\* Inputs of the normalizer
\* ------------------------------------------------------------------
StrAlphabet == {" ", "\n", "1", ",", ".", "-", "a"}
TopStrings == {Str(c) : c \in SeqsUpTo(StrAlphabet, MaxStrLen)}
Numbers == {Num(<<"0">>), Num(<<"9">>), Num(<<"1", "0">>), Num(<<"-", "1">>), Num(<<"1", ".", "5">>)}
\* a date, a range and a version
DateString == Str(<<"2", "0", "2", "4", "-", "0", "1", "-", "0", "2">>)
RangeString == Str(<<"1", "-", "2">>)
VersionString == Str(<<"1", ".", "2", ".", "3">>)
ExampleStrings == {DateString, RangeString, VersionString, Str(<<"a", " ", "1", ",", "0", "0", "0">>)}
TopScalars == TopStrings \cup ExampleStrings \cup Numbers \cup {Bool(TRUE), Bool(FALSE), Null}
NestScalars == {Str(<<" ", "b">>), Str(<<"1", "0">>), Num(<<"9">>), Null, Bool(TRUE)}
KeySeqs == {<<>>, <<<<"a">>>>, <<<<"b">>>>, <<<<"a">>, <<"b">>>>, <<<<"b">>, <<"a">>>>}

\* the values of exactly n nodes (a scalar, an array or an object is one node)
\* and the sequences of values of n nodes in total
RECURSIVE ValuesOfSize(_)
RECURSIVE SeqsOfSize(_)
SeqsOfSize(n) ==
  IF n = 0 THEN {<<>>}
  ELSE UNION {{<<v>> \o rest : v \in ValuesOfSize(j), rest \in SeqsOfSize(n - j)} : j \in 1..n}
ObjectsOver(vals) ==
  {Obj([k \in 1..Len(vals) |-> <<ks[k], vals[k]>>]) : ks \in {q \in KeySeqs : Len(q) = Len(vals)}}
ValuesOfSize(n) ==
  IF n = 0 THEN {}
  ELSE (IF n = 1 THEN NestScalars ELSE {})
       \cup {Arr(e) : e \in SeqsOfSize(n - 1)}
       \cup UNION {ObjectsOver(e) : e \in {q \in SeqsOfSize(n - 1) : Len(q) <= 2}}
\* the top-level scalars and the values of at most n nodes
ValuesUpTo(n) == TopScalars \cup UNION {ValuesOfSize(m) : m \in 1..n}

\* the resolver is not running
ResolverIdle ==
  /\ docs = <<>>
  /\ url = NoUrl
  /\ indexLimit = 5
  /\ limit = 0
  /\ pc = "idle"
  /\ queue = <<>>
  /\ tried = {}
  /\ firstError = 0
  /\ cur = NoUrl
  /\ child = <<>>
  /\ ci = 0
  /\ all = <<>>
  /\ result = [source |-> NoUrl, urls |-> <<>>]
  /\ thrown = 0
  /\ fetchLog = <<>>
  /\ errLog = <<>>
  /\ robotsCalls = 0

NormInit ==
  /\ ResolverIdle
  /\ RunIdle
  /\ DiffIdle
  /\ RetryIdle
  /\ TableIdle
  /\ nphase = "input"
  /\ nv \in ValuesUpTo(MaxNodes)
  /\ nv1 = Null
  /\ nv2 = Null

\* nv1 = normalizeValue(v)
NormalizeOnce ==
  /\ nphase = "input"
  /\ nv1' = normalizeValue(nv)
  /\ nphase' = "once"
  /\ UNCHANGED <<resolverVars, nv, nv2, extVars>>

\* nv2 = normalizeValue(nv1)
NormalizeTwice ==
  /\ nphase = "once"
  /\ nv2' = normalizeValue(nv1)
  /\ nphase' = "twice"
  /\ UNCHANGED <<resolverVars, nv, nv1, extVars>>

NormNext == NormalizeOnce \/ NormalizeTwice

NormSpec == NormInit /\ [][NormNext]_vars

\* ------------------------------------------------------------------
\* simpleDiff
\* ------------------------------------------------------------------
\* undefined: a missing snapshot (prev?.data of a first run), a missing field
Undef == <<"undef", <<>>>>

\* JSON.stringify of a string: quoted, the line feed escaped
RECURSIVE escapeChars(_)
escapeChars(s) ==
  IF s = <<>> THEN <<>>
  ELSE (IF s[1] = "\n" THEN <<"\\", "n">> ELSE <<s[1]>>) \o escapeChars(Tail(s))
quote(s) == <<"\"">> \o escapeChars(s) \o <<"\"">>

\* JSON.stringify(v): a string, or Undef when v is undefined.  Inside an
\* array undefined prints as null; an undefined property is left out.
RECURSIVE jsonStringify(_)
RECURSIVE jsonElems(_)
RECURSIVE jsonEntries(_, _)
jsonElems(elems) ==
  IF elems = <<>> THEN <<>>
  ELSE LET h == IF elems[1][1] = "undef" THEN <<"n", "u", "l", "l">>
                ELSE jsonStringify(elems[1])[2]
       IN IF Len(elems) = 1 THEN h ELSE h \o <<",">> \o jsonElems(Tail(elems))
jsonEntries(entries, first) ==
  IF entries = <<>> THEN <<>>
  ELSE IF entries[1][2][1] = "undef" THEN jsonEntries(Tail(entries), first)
  ELSE (IF first THEN <<>> ELSE <<",">>)
       \o quote(entries[1][1]) \o <<":">> \o jsonStringify(entries[1][2])[2]
       \o jsonEntries(Tail(entries), FALSE)
jsonStringify(v) ==
  CASE v[1] = "undef" -> Undef
    [] v[1] = "str" -> Str(quote(v[2]))
    [] v[1] = "arr" -> Str(<<"[">> \o jsonElems(v[2]) \o <<"]">>)
    [] v[1] = "obj" -> Str(<<"{">> \o jsonEntries(v[2], TRUE) \o <<"}">>)
    [] OTHER -> Str(toString(v))

\* Object.keys(o): the own keys in property order
objectKeys(o) == [k \in 1..Len(o[2]) |-> o[2][k][1]]

\* o[k]: the value of the property, undefined when o has none
getProperty(o, k) ==
  LET hits == {i \in 1..Len(o[2]) : o[2][i][1] = k}
  IN IF hits = {} THEN Undef ELSE o[2][CHOOSE i \in hits : TRUE][2]

\* normalizeValue(x) ?? {}
normalizedOrEmpty(x) ==
  LET n == normalizeValue(x)
  IN IF n[1] \in {"undef", "null"} THEN Obj(<<>>) ELSE n

\* new Set([...xs]): the first occurrence of every element, in order
RECURSIVE uniqueInOrder(_)
uniqueInOrder(xs) ==
  IF xs = <<>> THEN <<>>
  ELSE LET init == uniqueInOrder(SubSeq(xs, 1, Len(xs) - 1))
           x == xs[Len(xs)]
       IN IF \E i \in 1..Len(init) : init[i] = x THEN init ELSE Append(init, x)

\* variant: every examined key is reported
fieldDiffersAlways(A, B, k) == TRUE

\* JSON.stringify(A[k]) !== JSON.stringify(B[k])
fieldDiffers(A, B, k) ==
  jsonStringify(getProperty(A, k)) # jsonStringify(getProperty(B, k))

\* variant: the ignore list is not consulted
ignoreIncludesNothing(ignore, k) == FALSE

\* ignore.includes(k)
ignoreIncludes(ignore, k) == \E i \in 1..Len(ignore) : ignore[i] = k

\* variant: nothing is reported when there is no previous snapshot
simpleDiffSkipMissing(a, b, ignore) ==
  LET A == normalizedOrEmpty(a)
      B == normalizedOrEmpty(b)
      keys == uniqueInOrder(objectKeys(A) \o objectKeys(B))
  IN IF a[1] = "undef" THEN <<>>
     ELSE SelectSeq(keys, LAMBDA k : ~ignoreIncludes(ignore, k) /\ fieldDiffers(A, B, k))

\* simpleDiff(a, b, ignore): the changed keys in the order they are pushed
simpleDiff(a, b, ignore) ==
  LET A == normalizedOrEmpty(a)
      B == normalizedOrEmpty(b)
      keys == uniqueInOrder(objectKeys(A) \o objectKeys(B))
  IN SelectSeq(keys, LAMBDA k : ~ignoreIncludes(ignore, k) /\ fieldDiffers(A, B, k))

\* ------------------------------------------------------------------
\* Inputs of simpleDiff
\* ------------------------------------------------------------------
KeyA == <<"a">>
KeyB == <<"b">>
KeyK == <<"k">>
One == Num(<<"1">>)
Two == Num(<<"2">>)
\* the elements of a sequence-valued field: scalars, mappings, a sequence
DiffElems == {One, Two, Obj(<<<<KeyK, One>>>>), Obj(<<<<KeyK, Two>>>>), Arr(<<One>>)}
DiffFields ==
  {One, Two, Null, Str(<<" ", "1">>), Obj(<<<<KeyK, One>>>>), Obj(<<<<KeyK, Two>>>>)}
    \cup {Arr(e) : e \in SeqsUpTo(DiffElems, MaxElems)}
\* the fields of the snapshots that have a second field
PairedFields ==
  {One, Two, Obj(<<<<KeyK, One>>>>), Arr(<<Two, One>>),
   Obj(<<<<KeyK, Two>>>>), Arr(<<Obj(<<<<KeyK, Two>>>>), Obj(<<<<KeyK, One>>>>)>>)}
Snapshots ==
  {Undef, Obj(<<>>)}
    \cup {Obj(<<<<KeyA, f>>>>) : f \in DiffFields}
    \cup {Obj(<<<<KeyB, g>>>>) : g \in {One, Two}}
    \cup {Obj(<<<<KeyA, f>>, <<KeyB, g>>>>) : f \in PairedFields, g \in {One, Two}}
    \cup {Obj(<<<<KeyB, g>>, <<KeyA, f>>>>) : f \in PairedFields, g \in {One, Two}}
IgnoreLists == {<<>>, <<KeyA>>, <<KeyB>>}

DiffInit ==
  /\ ResolverIdle
  /\ RunIdle
  /\ NormIdle
  /\ RetryIdle
  /\ TableIdle
  /\ dphase = "input"
  /\ da \in Snapshots
  /\ db \in Snapshots
  /\ dignore \in IgnoreLists
  /\ dchanged = <<>>

\* changed = simpleDiff(prev, curr, ignore)
Diff ==
  /\ dphase = "input"
  /\ dchanged' = simpleDiff(da, db, dignore)
  /\ dphase' = "done"
  /\ UNCHANGED <<resolverVars, normVars, retryVars, tableVars, runVars, da, db, dignore>>

DiffNext == Diff

DiffSpec == DiffInit /\ [][DiffNext]_vars

\* ------------------------------------------------------------------
\* withRetry and fetchTextMaybeGzip
\* ------------------------------------------------------------------
\* the defaults of withRetry's options
DefaultTries == 3
DefaultBaseMs == 800
\* the first two bytes of a gzip stream
GzipId1 == 31
GzipId2 == 139

\* A response body: its length, its first two bytes, the text its bytes
\* decode to, and the text gunzipSync inflates it to ("" when gunzipSync
\* throws; only a stream that starts with the gzip header inflates).
Body(len, b0, b1, text, inflated) ==
  [len |-> len, b0 |-> b0, b1 |-> b1, text |-> text, inflated |-> inflated]
Bodies ==
  {Body(9, 60, 63, "xml", ""),
   Body(9, GzipId1, GzipId2, "gz-bytes", "xml"),
   Body(9, GzipId1, GzipId2, "bad-gz-bytes", ""),
   Body(2, GzipId1, GzipId2, "short", "")}
ContentTypes == {"", "application/xml", "application/gzip", "application/x-gzip"}
ContentEncodings == {"", "gzip", "br"}
Responses ==
  {[ok |-> st = 200, status |-> st, ct |-> ct, ce |-> ce, buf |-> b] :
     st \in {200} \cup ErrStatuses, ct \in ContentTypes, ce \in ContentEncodings, b \in Bodies}
\* no response yet, and the response a directly called fn resolves to
NoResponse == [ok |-> FALSE, status |-> 0, ct |-> "", ce |-> "", buf |-> Body(0, 0, 0, "", "")]
PlainResponse == [ok |-> TRUE, status |-> 200, ct |-> "", ce |-> "", buf |-> Body(9, 60, 63, "xml", "")]
FetchPaths == {<<"s">>, <<"s", ".", "g", "z">>, <<"s", ".", "G", "Z">>}

\* looksLikeGzip(buf)
looksLikeGzip(buf) == buf.len > 2 /\ buf.b0 = GzipId1 /\ buf.b1 = GzipId2

\* url.toLowerCase().endsWith(".gz")
UpperCase == <<"A", "C", "G", "H", "L", "N", "O", "T", "Z">>
LowerCase == <<"a", "c", "g", "h", "l", "n", "o", "t", "z">>
caseMap(from, to, c) ==
  IF \E k \in 1..Len(from) : from[k] = c
  THEN to[CHOOSE k \in 1..Len(from) : from[k] = c]
  ELSE c
toLowerCase(s) == [k \in 1..Len(s) |-> caseMap(UpperCase, LowerCase, s[k])]
toUpperCase(s) == [k \in 1..Len(s) |-> caseMap(LowerCase, UpperCase, s[k])]
endsWith(s, suffix) ==
  Len(s) >= Len(suffix) /\ SubSeq(s, Len(s) - Len(suffix) + 1, Len(s)) = suffix

\* gzByType || gzByEnc || gzByExt || looksLikeGzip(buf)
gzipIndicated(u, res) ==
  \/ res.ct \in {"application/gzip", "application/x-gzip"}
  \/ res.ce = "gzip"
  \/ endsWith(toLowerCase(u), <<".", "g", "z">>)
  \/ looksLikeGzip(res.buf)

\* variant: a gunzip failure is not caught
decodeBodyNoFallback(u, res) ==
  IF gzipIndicated(u, res)
  THEN (IF res.buf.inflated # "" THEN res.buf.inflated ELSE "")
  ELSE res.buf.text

\* the text returned for an ok response; "" stands for a thrown error
decodeBody(u, res) ==
  IF gzipIndicated(u, res) /\ res.buf.inflated # ""
  THEN res.buf.inflated
  ELSE res.buf.text

\* variant: a delay follows every failed attempt
shouldDelayAlways(i, tries) == TRUE

\* if (i < tries) await delay(...)
shouldDelay(i, tries) == i < tries

\* baseMs * i
backoff(baseMs, i) == baseMs * i

RetryInit ==
  /\ ResolverIdle
  /\ RunIdle
  /\ NormIdle
  /\ DiffIdle
  /\ TableIdle
  /\ \/ /\ fcaller = "withRetry"
        /\ furl = <<>>
        /\ ftries \in 0..MaxTries
        /\ fbaseMs \in {DefaultBaseMs, 100}
     \/ /\ fcaller \in {"withRetry", "fetchTextMaybeGzip"}
        /\ furl \in IF fcaller = "withRetry" THEN {<<>>} ELSE FetchPaths
        /\ ftries = DefaultTries
        /\ fbaseMs = DefaultBaseMs
  /\ fi = 1
  /\ fpc = "call"
  /\ flastErr = ""
  /\ fvalue = NoResponse
  /\ fresult = ""
  /\ fcalls = <<>>
  /\ fdelays = <<>>

\* what fn() settles to: a rejection, or the value it resolves to
FnOutcomes ==
  {[resolved |-> FALSE, error |-> e, value |-> NoResponse] : e \in {"ECONNRESET", "ETIMEDOUT"}}
    \cup {[resolved |-> TRUE, error |-> "", value |-> v] :
            v \in IF fcaller = "fetchTextMaybeGzip" THEN Responses ELSE {PlainResponse}}

\* variant: a response that is not ok is treated as a failed attempt
attemptReturnsOnlyOk(o) == o.resolved /\ o.value.ok

\* return await fn(): whatever fn resolves to ends the loop, and only a
\* rejection reaches the catch
attemptReturns(o) == o.resolved

\* one iteration of the loop: try { return await fn(); } catch (e) { ... }
Attempt ==
  /\ fpc = "call"
  /\ fi <= ftries
  /\ \E o \in FnOutcomes :
       /\ fcalls' = Append(fcalls, o.resolved)
       /\ IF attemptReturns(o)
          THEN /\ fvalue' = o.value
               /\ fpc' = "returned"
               /\ UNCHANGED <<flastErr, fi>>
          ELSE /\ flastErr' = o.error
               /\ IF shouldDelay(fi, ftries)
                  THEN fpc' = "delay" /\ UNCHANGED fi
                  ELSE fi' = fi + 1 /\ UNCHANGED fpc
               /\ UNCHANGED fvalue
  /\ UNCHANGED <<resolverVars, normVars, diffVars, tableVars, runVars, fcaller, furl, ftries, fbaseMs,
                 fresult, fdelays>>

\* await delay(baseMs * i), then i++
Delay ==
  /\ fpc = "delay"
  /\ fdelays' = Append(fdelays, backoff(fbaseMs, fi))
  /\ fi' = fi + 1
  /\ fpc' = "call"
  /\ UNCHANGED <<resolverVars, normVars, diffVars, tableVars, runVars, fcaller, furl, ftries, fbaseMs,
                 flastErr, fvalue, fresult, fcalls>>

\* the loop is over: throw new Error(`${label} failed after ${tries} attempts`)
GiveUp ==
  /\ fpc = "call"
  /\ fi > ftries
  /\ fpc' = "thrown"
  /\ UNCHANGED <<resolverVars, normVars, diffVars, tableVars, runVars, fcaller, furl, ftries, fbaseMs, fi,
                 flastErr, fvalue, fresult, fcalls, fdelays>>

\* fetchTextMaybeGzip after withRetry returned { res, buf }
DecodeResponse ==
  /\ fcaller = "fetchTextMaybeGzip"
  /\ fpc = "returned"
  /\ IF ~fvalue.ok
     THEN fpc' = "httpError" /\ UNCHANGED fresult
     ELSE IF decodeBody(furl, fvalue) = ""
     THEN fpc' = "gunzipError" /\ UNCHANGED fresult
     ELSE fpc' = "text" /\ fresult' = decodeBody(furl, fvalue)
  /\ UNCHANGED <<resolverVars, normVars, diffVars, tableVars, runVars, fcaller, furl, ftries, fbaseMs, fi,
                 flastErr, fvalue, fcalls, fdelays>>

RetryNext == Attempt \/ Delay \/ GiveUp \/ DecodeResponse

RetrySpec == RetryInit /\ [][RetryNext]_vars

\* ------------------------------------------------------------------
\* Table-row checks: runPsaPriceRow and runPsaPopRow
\* ------------------------------------------------------------------
\* hay.includes(needle)
includesSeq(hay, needle) ==
  \E i \in 0..Len(hay) :
     i + Len(needle) <= Len(hay) /\ SubSeq(hay, i + 1, i + Len(needle)) = needle

\* s.toLowerCase().replace(/[^a-z0-9]+/g, " ")
LowerLetters ==
  {"a", "b", "c", "d", "e", "f", "g", "h", "i", "j", "k", "l", "m", "n", "o", "p", "q",
   "r", "s", "t", "u", "v", "w", "x", "y", "z"}
RECURSIVE squashNonAlnum(_)
squashNonAlnum(s) ==
  IF s = <<>> THEN <<>>
  ELSE IF s[1] \notin LowerLetters \cup Digits
       THEN IF Len(s) > 1 /\ s[2] \notin LowerLetters \cup Digits
            THEN squashNonAlnum(Tail(s))
            ELSE <<" ">> \o squashNonAlnum(Tail(s))
       ELSE <<s[1]>> \o squashNonAlnum(Tail(s))

\* N.split(/\s+/).filter(Boolean)
RECURSIVE splitTokens(_, _)
splitTokens(s, tok) ==
  IF s = <<>> THEN (IF tok = <<>> THEN <<>> ELSE <<tok>>)
  ELSE IF s[1] \in Whitespace
       THEN (IF tok = <<>> THEN <<>> ELSE <<tok>>) \o splitTokens(Tail(s), <<>>)
       ELSE splitTokens(Tail(s), Append(tok, s[1]))

\* looseContains(hay, needle)
looseContains(hay, needle) ==
  LET H == squashNonAlnum(toLowerCase(hay))
      toks == splitTokens(squashNonAlnum(toLowerCase(needle)), <<>>)
  IN \A k \in 1..Len(toks) : includesSeq(H, toks[k])

\* r.join(" ")
RECURSIVE joinCells(_)
joinCells(r) ==
  IF r = <<>> THEN <<>>
  ELSE IF Len(r) = 1 THEN r[1]
  ELSE r[1] \o <<" ">> \o joinCells(Tail(r))

\* the least index of a set of matching positions, 0 when none matches
\* (find and findIndex)
firstIndex(hits) == IF hits = {} THEN 0 ELSE CHOOSE k \in hits : \A j \in hits : k <= j

\* pickTableWithColumn(tables, desiredColUpper): the position of the first
\* table one of whose headers contains the column name, 0 when there is none
pickTableWithColumn(tables, desiredColUpper) ==
  LET want == toUpperCase(desiredColUpper)
  IN firstIndex({k \in 1..Len(tables) :
                   \E i \in 1..Len(tables[k].headers) :
                      includesSeq(toUpperCase(trim(tables[k].headers[i])), want)})

\* the column name a check asks for: check.gradeCol || "", or
\* (check.column || "TOTAL").toUpperCase()
columnName(check) ==
  IF check.type = "psa_pop_row"
  THEN toUpperCase(IF check.column = <<>> THEN <<"T", "O", "T", "A", "L">> ELSE check.column)
  ELSE check.column

\* headers.findIndex(...) of the two checks
columnIndex(check, headers) ==
  IF check.type = "psa_pop_row"
  THEN firstIndex({k \in 1..Len(headers) :
                     includesSeq(toUpperCase(trim(headers[k])), columnName(check))})
  ELSE firstIndex({k \in 1..Len(headers) :
                     includesSeq(toUpperCase(collapseWhitespace(headers[k])),
                                 toUpperCase(check.column))})

\* r[1] || r[0] || ""
nameCell(r) ==
  IF Len(r) >= 2 /\ r[2] # <<>> THEN r[2]
  ELSE IF Len(r) >= 1 THEN r[1] ELSE <<>>

\* variant: the first row stands in when no row matches (rows.find(...) || rows[0])
rowIndexOrFirst(check, mode, rows) ==
  LET hits == {k \in 1..Len(rows) :
                 \/ \E c \in 1..Len(rows[k]) : looseContains(rows[k][c], check.rowMatch)
                 \/ looseContains(joinCells(rows[k]), check.rowMatch)}
  IN IF hits # {} THEN firstIndex(hits) ELSE IF Len(rows) > 0 THEN 1 ELSE 0

\* rows.find(...) of the two checks and the two strategies
rowIndex(check, mode, rows) ==
  IF check.type = "psa_price_row"
  THEN firstIndex({k \in 1..Len(rows) :
                     \/ \E c \in 1..Len(rows[k]) : looseContains(rows[k][c], check.rowMatch)
                     \/ looseContains(joinCells(rows[k]), check.rowMatch)})
  ELSE IF mode = "html"
  THEN firstIndex({k \in 1..Len(rows) : looseContains(joinCells(rows[k]), check.rowMatch)})
  ELSE firstIndex({k \in 1..Len(rows) :
                     \/ looseContains(nameCell(rows[k]), check.rowMatch)
                     \/ looseContains(joinCells(rows[k]), check.rowMatch)})

\* cleaned.replace(/[+–-]+$/g, "")
RECURSIVE stripTrailingSigns(_)
stripTrailingSigns(s) ==
  IF s # <<>> /\ s[Len(s)] \in {"+", "-"}
  THEN stripTrailingSigns(SubSeq(s, 1, Len(s) - 1))
  ELSE s

\* toNumberLike(s): the number, or null when the cleaned text is no finite
\* number; Number("") is 0
toNumberLike(s) ==
  LET kept == SelectSeq(s, LAMBDA c : c \in Digits \cup {".", "+", "-"})
      cleaned == stripTrailingSigns(kept)
      body == IF cleaned # <<>> /\ cleaned[1] = "+" THEN Tail(cleaned) ELSE cleaned
      signedTwice == cleaned # <<>> /\ cleaned[1] = "+" /\ body # <<>> /\ body[1] = "-"
  IN IF cleaned = <<>> THEN Num(<<"0">>)
     ELSE IF signedTwice \/ (\E k \in 1..Len(body) : body[k] = "+") \/ isNaNLiteral(body)
     THEN Null
     ELSE Num(toNumber(body))

\* the payload built from the matched row
payload(check, mode, headers, row) ==
  LET colIdx == columnIndex(check, headers)
      raw == IF colIdx >= 1 /\ colIdx <= Len(row) THEN row[colIdx] ELSE <<>>
  IN [row |-> IF Len(row) >= 1 THEN row[1] ELSE <<>>,
      raw |-> raw, value |-> toNumberLike(raw), mode |-> mode]

\* a table as both extractors deliver it, and whether the page shows it
Table(headers, rows, visible) == [headers |-> headers, rows |-> rows, visible |-> visible]
HeaderName == <<"N", "a", "m", "e">>
HeaderT == <<"T">>
HeaderTotal == <<"T", "o", "t", "a", "l">>
HeaderOther == <<"x">>
RowMatch == <<"c", " ", "h">>
TargetRow(v) == <<<<"C", "-", "h">>, v>>
OtherRow == <<<<"c">>, <<"3">>>>
FillerRow == <<<<"x">>, <<"1">>>>
TableSet ==
  {Table(<<HeaderName, HeaderT>>, <<TargetRow(<<"7">>)>>, TRUE),
   Table(<<HeaderName, HeaderT>>, <<TargetRow(<<"7">>)>>, FALSE),
   Table(<<HeaderName, HeaderT>>, <<OtherRow>>, TRUE),
   Table(<<HeaderName, HeaderT>>, <<OtherRow>>, FALSE),
   Table(<<HeaderName, HeaderOther>>, <<TargetRow(<<"5">>)>>, TRUE),
   Table(<<HeaderName, HeaderTotal>>, <<OtherRow, TargetRow(<<"$", "9", "+">>)>>, TRUE),
   Table(<<>>, <<>>, TRUE)}
\* the worked example: a hidden table of 50 rows and a visible table of 5
\* rows, one of which holds the target tokens
Hidden50 == Table(<<HeaderName, HeaderT>>, [k \in 1..50 |-> FillerRow], FALSE)
Visible5 ==
  Table(<<HeaderName, HeaderT>>,
        [k \in 1..5 |-> IF k = 3 THEN TargetRow(<<"7">>) ELSE FillerRow], TRUE)
TableLists == SeqsUpTo(TableSet, MaxTables) \cup {<<Hidden50, Visible5>>, <<Visible5, Hidden50>>}
TableChecks ==
  {[type |-> "psa_price_row", column |-> <<"t">>, rowMatch |-> RowMatch],
   [type |-> "psa_pop_row", column |-> <<"t">>, rowMatch |-> RowMatch],
   [type |-> "psa_pop_row", column |-> <<>>, rowMatch |-> RowMatch]}

\* the outcome of fetchTextMaybeGzip(check.url) followed by parseTables
Html(ok, tables) == [ok |-> ok, tables |-> tables]

TableInit ==
  /\ ResolverIdle
  /\ RunIdle
  /\ NormIdle
  /\ DiffIdle
  /\ RetryIdle
  /\ tcheck \in TableChecks
  /\ tdom \in TableLists
  /\ thtml \in {Html(FALSE, <<>>), Html(TRUE, tdom)} \cup {Html(TRUE, <<t>>) : t \in TableSet}
  /\ tpc = "html"
  /\ ttarget = 0
  /\ tresult = NoPayload
  /\ terror = ""

\* 1) HTML fetch: every error of this strategy is swallowed by catch {}
HtmlStrategy ==
  /\ tpc = "html"
  /\ IF ~thtml.ok
     THEN tpc' = "playwright" /\ UNCHANGED <<ttarget, tresult>>
     ELSE LET tables == thtml.tables
              target == pickTableWithColumn(tables, columnName(tcheck))
              row == IF target = 0 THEN 0 ELSE rowIndex(tcheck, "html", tables[target].rows)
          IN /\ ttarget' = target
             /\ IF target # 0 /\ columnIndex(tcheck, tables[target].headers) # 0 /\ row # 0
                THEN /\ tresult' = payload(tcheck, "html", tables[target].headers,
                                           tables[target].rows[row])
                     /\ tpc' = "returned"
                ELSE tpc' = "playwright" /\ UNCHANGED tresult
  /\ UNCHANGED <<resolverVars, normVars, diffVars, retryVars, runVars, tcheck, thtml, tdom, terror>>

\* 2) Playwright fallback: its errors fail the check
PlaywrightStrategy ==
  /\ tpc = "playwright"
  /\ IF tdom = <<>>
     THEN \* page.waitForSelector("table") times out
          /\ terror' = "timeout"
          /\ tpc' = "thrown"
          /\ UNCHANGED <<ttarget, tresult>>
     ELSE LET target == pickTableWithColumn(tdom, columnName(tcheck))
              row == IF target = 0 THEN 0 ELSE rowIndex(tcheck, "playwright", tdom[target].rows)
          IN /\ ttarget' = target
             /\ IF target = 0
                THEN terror' = "column not found" /\ tpc' = "thrown" /\ UNCHANGED tresult
                ELSE IF row = 0
                THEN terror' = "row not found" /\ tpc' = "thrown" /\ UNCHANGED tresult
                ELSE /\ tresult' = payload(tcheck, "playwright", tdom[target].headers,
                                           tdom[target].rows[row])
                     /\ tpc' = "returned"
                     /\ UNCHANGED terror
  /\ UNCHANGED <<resolverVars, normVars, diffVars, retryVars, runVars, tcheck, thtml, tdom>>

TableNext == HtmlStrategy \/ PlaywrightStrategy

TableSpec == TableInit /\ [][TableNext]_vars

\* ------------------------------------------------------------------
\* The run loop: run()
\* ------------------------------------------------------------------
\* checks.filter(c => !GROUP || c.group === GROUP)
todo(group) == SelectSeq(checks, LAMBDA c : group = "" \/ c.group = group)

\* the property names of the payloads
KeyPrice == <<"p", "r", "i", "c", "e">>
KeyRaw == <<"r", "a", "w">>
KeyAvailable == <<"a", "v", "a", "i", "l", "a", "b", "l", "e">>
KeySource == <<"s", "o", "u", "r", "c", "e">>
KeyNowCount == <<"n", "o", "w", "C", "o", "u", "n", "t">>
KeyPrevCount == <<"p", "r", "e", "v", "C", "o", "u", "n", "t">>
KeyAdded == <<"a", "d", "d", "e", "d">>
KeyRemoved == <<"r", "e", "m", "o", "v", "e", "d">>
KeyAll == <<"a", "l", "l">>

\* JSON.parse(JSON.stringify(v)): what a value is after writeJson and
\* readJson (an undefined property is dropped, an undefined element is null)
RECURSIVE jsonRoundTrip(_)
jsonRoundTrip(v) ==
  CASE v[1] = "arr" ->
         Arr([k \in 1..Len(v[2]) |->
                IF v[2][k][1] = "undef" THEN Null ELSE jsonRoundTrip(v[2][k])])
    [] v[1] = "obj" ->
         LET kept == SelectSeq(v[2], LAMBDA e : e[2][1] # "undef")
         IN Obj([k \in 1..Len(kept) |-> <<kept[k][1], jsonRoundTrip(kept[k][2])>>])
    [] OTHER -> v

\* String(n) of a count
DigitChars == <<"0", "1", "2", "3", "4", "5", "6", "7", "8", "9">>
RECURSIVE digitsOf(_)
digitsOf(n) ==
  IF n < 10 THEN <<DigitChars[n + 1]>>
  ELSE digitsOf(n \div 10) \o <<DigitChars[(n % 10) + 1]>>

\* s.includes(x) / set.has(x)
has(xs, x) == \E i \in 1..Len(xs) : xs[i] = x

\* diffSets(prev, next)
diffSets(prev, next) ==
  [added |-> sortDefault(SelectSeq(uniqueInOrder(next), LAMBDA x : ~has(prev, x))),
   removed |-> sortDefault(SelectSeq(uniqueInOrder(prev), LAMBDA x : ~has(next, x)))]

\* prevRecord?.data?.all || []
previousAll(prevRecord) ==
  LET a == getProperty(prevRecord.data, KeyAll)
  IN IF a[1] = "arr" THEN a[2] ELSE <<>>

\* runSitemapDiffCheck(check, prevRecord), current being what runSitemapCheck
\* returned (its source in value, its urls in all)
runSitemapDiffCheck(current, prevRecord) ==
  LET prevAll == previousAll(prevRecord)
      d == diffSets(prevAll, current.all)
  IN Obj(<<<<KeySource, current.value>>,
           <<KeyNowCount, Num(digitsOf(Len(current.all)))>>,
           <<KeyPrevCount, Num(digitsOf(Len(prevAll)))>>,
           <<KeyAdded, Arr(d.added)>>,
           <<KeyRemoved, Arr(d.removed)>>>>)

\* seriesValueFor(type, data): the numeric signal, null when there is none
seriesValueFor(type, data) ==
  IF type = "price"
  THEN (IF getProperty(data, KeyPrice)[1] = "num" THEN getProperty(data, KeyPrice) ELSE Null)
  ELSE IF type = "availability"
  THEN (IF getProperty(data, KeyAvailable)[1] = "bool"
        THEN (IF getProperty(data, KeyAvailable)[2] THEN One ELSE Num(<<"0">>))
        ELSE Null)
  ELSE Null

\* the records written to data/latest and data/history
SuccessRecord(check, startedAt, data) ==
  [name |-> check.name, type |-> check.type, checkedAt |-> startedAt,
   data |-> jsonRoundTrip(data), error |-> ""]
ErrorRecord(check, startedAt, e) ==
  [name |-> check.name, type |-> check.type, checkedAt |-> startedAt,
   data |-> Undef, error |-> e]

\* what the page or the sitemap gives a check of each type: an exception, or
\* the value (for sitemap_diff the result of runSitemapCheck)
UrlA == Str(<<"a">>)
UrlB == Str(<<"b">>)
Failure(e) == [ok |-> FALSE, error |-> e, value |-> Undef, all |-> <<>>]
Success(v) == [ok |-> TRUE, error |-> "", value |-> v, all |-> <<>>]
Resolved(source, urls) == [ok |-> TRUE, error |-> "", value |-> source, all |-> urls]
CheckOutcomes(type) ==
  {Failure("Timeout")} \cup
  (IF type = "price"
   THEN {Success(Obj(<<<<KeyPrice, One>>, <<KeyRaw, Str(<<"$", "1">>)>>>>)),
         Success(Obj(<<<<KeyPrice, Two>>, <<KeyRaw, Str(<<"$", "2">>)>>>>))}
   ELSE IF type = "availability"
   THEN {Success(Obj(<<<<KeyAvailable, Bool(TRUE)>>, <<KeyRaw, Str(<<"s">>)>>>>))}
   ELSE {Resolved(Str(<<"s">>), u) : u \in {<<UrlA>>, <<UrlA, UrlB>>}})

\* variant: the history copy and the webhook follow every completed check
isChangedAlways(changedKeys) == TRUE

\* changed = changedKeys.length > 0
isChanged(changedKeys) == Len(changedKeys) > 0

\* variant: the loop is left after a failed check
leaveLoop(pos, n) == n + 1

\* the for-of loop goes on with the next check
nextCheck(pos, n) == pos + 1

\* variant: any failed check makes the process fail, FAIL_ON_ERROR or not
exitStatusOnAnyError(failed, failOnError) == IF failed THEN 1 ELSE 0

\* if (hadError && FAIL_ON_ERROR) process.exit(1); otherwise the process ends
\* with status 0
exitStatus(failed, failOnError) == IF failed /\ failOnError THEN 1 ELSE 0

\* variant: the latest file is read again for the webhook, after it was written
webhookPreviousReread(prev, written) == written

\* previous: prev, the record read at the start of the try block
webhookPrevious(prev, written) == prev

\* variant: no latest file is taken for stale
isStaleNever(name, checkNames) == FALSE

\* if (!checkNames.has(name)) unlink: the latest file of a check that was not
\* selected for this run is removed
isStale(name, checkNames) == name \notin checkNames

\* sendWebhook: nothing is sent without WEBHOOK_URL
sendWebhook(sent, body) == IF WEBHOOK_URL THEN Append(sent, body) ELSE sent

\* an empty data directory: no run has taken place
FreshDirectory ==
  /\ latest = [n \in CheckNames |-> NoFile]
  /\ history = {}
  /\ series = [n \in CheckNames |-> <<>>]
  /\ reports = [g \in Groups \cup {"all"} |-> <<>>]
  /\ posts = <<>>
  /\ now = 1
  /\ seen = {}

\* the data directory two runs of the group "price" leave behind, with
\* WEBHOOK_URL set: in the first the price check succeeded (price 1), in the
\* second it failed; the availability check failed both times
UsedPrice == Obj(<<<<KeyPrice, One>>, <<KeyRaw, Str(<<"$", "1">>)>>>>)
UsedDirectory ==
  /\ latest = [n \in CheckNames |->
                 IF n = "p" THEN ErrorRecord(checks[1], 3, "Timeout")
                 ELSE IF n = "a" THEN ErrorRecord(checks[3], 4, "Timeout")
                 ELSE NoFile]
  /\ history = {<<"p", 1, SuccessRecord(checks[1], 1, UsedPrice)>>}
  /\ series = [n \in CheckNames |-> IF n = "p" THEN <<[t |-> 1, v |-> One]>> ELSE <<>>]
  /\ reports = [g \in Groups \cup {"all"} |->
                  IF g = "price"
                  THEN <<[name |-> "p", type |-> "price", changed |-> FALSE,
                          changedKeys |-> <<>>, error |-> "Timeout"],
                         [name |-> "a", type |-> "availability", changed |-> FALSE,
                          changedKeys |-> <<>>, error |-> "Timeout"]>>
                  ELSE <<>>]
  /\ posts = <<[check |-> "p", changedKeys |-> <<KeyPrice>>,
                current |-> SuccessRecord(checks[1], 1, UsedPrice), previous |-> NoFile]>>
  /\ now = 5
  /\ seen = {}

\* a process starts over an empty data directory, or over the used one
RunInit ==
  /\ ResolverIdle
  /\ NormIdle
  /\ DiffIdle
  /\ RetryIdle
  /\ TableIdle
  /\ GROUP \in {""} \cup Groups
  /\ \/ /\ WEBHOOK_URL \in BOOLEAN
        /\ FAIL_ON_ERROR \in BOOLEAN
        /\ FreshDirectory
     \/ /\ WEBHOOK_URL = TRUE
        /\ FAIL_ON_ERROR = FALSE
        /\ UsedDirectory
  /\ summary = <<>>
  /\ hadError = FALSE
  /\ rphase = "loop"
  /\ rpos = 1
  /\ exitCode = 0
  /\ runNo = 1
  /\ rlog = <<>>

\* one iteration of for (const check of todo): the try block, or the catch
\* block when the check throws (data, record and changedKeys are bound once,
\* as the constants of the try block are)
RunCheck ==
  /\ rphase = "loop"
  /\ rpos <= Len(todo(GROUP))
  /\ LET check == todo(GROUP)[rpos]
         startedAt == now
         prev == latest[check.name]
     IN \E out \in CheckOutcomes(check.type) :
          /\ rlog' = Append(rlog, [name |-> check.name, startedAt |-> startedAt,
                                   out |-> out, prev |-> prev])
          /\ seen' = IF out.ok /\ check.type = "sitemap_diff"
                     THEN seen \cup {<<startedAt, out.all>>}
                     ELSE seen
          /\ IF out.ok
             THEN \E data \in {IF check.type = "sitemap_diff"
                                THEN runSitemapDiffCheck(out, prev)
                                ELSE out.value} :
                  \E record \in {SuccessRecord(check, startedAt, data)} :
                  \E changedKeys \in {simpleDiff(prev.data, data, check.ignoreKeys)} :
                  LET changed == isChanged(changedKeys)
                      tsVal == seriesValueFor(check.type, data)
                  IN /\ latest' = [latest EXCEPT ![check.name] = record]
                     /\ series' = IF tsVal # Null
                                  THEN [series EXCEPT ![check.name] =
                                          Append(@, [t |-> startedAt, v |-> tsVal])]
                                  ELSE series
                     /\ history' = IF changed
                                   THEN history \cup {<<check.name, startedAt, record>>}
                                   ELSE history
                     /\ posts' = IF changed
                                 THEN sendWebhook(posts,
                                        [check |-> check.name, changedKeys |-> changedKeys,
                                         current |-> record,
                                         previous |-> webhookPrevious(prev, record)])
                                 ELSE posts
                     /\ summary' = Append(summary,
                                     [name |-> check.name, type |-> check.type,
                                      changed |-> changed, changedKeys |-> changedKeys,
                                      error |-> ""])
                     /\ rpos' = rpos + 1
                     /\ UNCHANGED hadError
             ELSE /\ hadError' = TRUE
                  /\ latest' = [latest EXCEPT ![check.name] =
                                  ErrorRecord(check, startedAt, out.error)]
                  /\ summary' = Append(summary,
                                  [name |-> check.name, type |-> check.type,
                                   changed |-> FALSE, changedKeys |-> <<>>,
                                   error |-> out.error])
                  /\ rpos' = nextCheck(rpos, Len(todo(GROUP)))
                  /\ UNCHANGED <<series, history, posts>>
  /\ now' = now + 1
  /\ UNCHANGED <<resolverVars, normVars, diffVars, retryVars, tableVars, GROUP,
                 WEBHOOK_URL, FAIL_ON_ERROR, reports, rphase, exitCode, runNo>>

\* after the loop: prune stale latest files, write the report, exit
Finish ==
  /\ rphase = "loop"
  /\ rpos > Len(todo(GROUP))
  /\ LET checkNames == {todo(GROUP)[k].name : k \in 1..Len(todo(GROUP))}
     IN latest' = [n \in CheckNames |-> IF isStale(n, checkNames) THEN NoFile ELSE latest[n]]
  /\ reports' = [reports EXCEPT ![IF GROUP = "" THEN "all" ELSE GROUP] = summary]
  /\ exitCode' = exitStatus(hadError, FAIL_ON_ERROR)
  /\ rphase' = "exited"
  /\ UNCHANGED <<resolverVars, normVars, diffVars, retryVars, tableVars, GROUP,
                 WEBHOOK_URL, FAIL_ON_ERROR, history, series, posts, summary, hadError,
                 rpos, runNo, now, rlog, seen>>

\* the next scheduled run: a new process over the same data directory
NextRun ==
  /\ rphase = "exited"
  /\ runNo < MaxRuns
  /\ GROUP' \in {""} \cup Groups
  /\ summary' = <<>>
  /\ hadError' = FALSE
  /\ rphase' = "loop"
  /\ rpos' = 1
  /\ exitCode' = 0
  /\ runNo' = runNo + 1
  /\ rlog' = <<>>
  /\ UNCHANGED <<resolverVars, normVars, diffVars, retryVars, tableVars, WEBHOOK_URL,
                 FAIL_ON_ERROR, latest, history, series, reports, posts, now, seen>>

RunNext == RunCheck \/ Finish \/ NextRun

RunSpec == RunInit /\ [][RunNext]_vars

\* ------------------------------------------------------------------
\* Reference results
\* ------------------------------------------------------------------
\* the leaf locations one child sitemap contributes, resolved against base
childLocs(sm, base) ==
  LET subXml == fetchTextMaybeGzip(sm)
  IN IF subXml.ok /\ ~subXml.isIndex THEN mapResolve(subXml.locs, base) ELSE <<>>

\* all after the first k children of the index at u have been processed,
\* when no limit stops the loop
RECURSIVE accumulated(_, _)
accumulated(u, k) ==
  IF k = 0 THEN <<>>
  ELSE LET ch == mapResolve(slice(fetchTextMaybeGzip(u).locs, indexLimit), u)
       IN accumulated(u, k - 1) \o childLocs(ch[k], u)

\* number of children the index at u is expanded to
childCount(u) == Len(slice(fetchTextMaybeGzip(u).locs, indexLimit))

\* what fetchSitemapUrls returns for the document at u when limit is undefined
unlimitedUrls(u) ==
  LET xml == fetchTextMaybeGzip(u)
  IN IF xml.isIndex THEN accumulated(u, childCount(u))
     ELSE mapResolve(xml.locs, u)

\* the same result with every location resolved against the URL of the
\* document that contains it
RECURSIVE ownBaseAccumulated(_, _)
ownBaseAccumulated(u, k) ==
  IF k = 0 THEN <<>>
  ELSE LET ch == mapResolve(slice(fetchTextMaybeGzip(u).locs, indexLimit), u)
       IN ownBaseAccumulated(u, k - 1) \o childLocs(ch[k], ch[k])
ownBaseUrls(u) ==
  LET xml == fetchTextMaybeGzip(u)
  IN IF xml.isIndex THEN ownBaseAccumulated(u, childCount(u))
     ELSE mapResolve(xml.locs, u)

IsPrefix(s, t) == Len(s) <= Len(t) /\ \A k \in 1..Len(s) : s[k] = t[k]
NoDuplicates(s) == \A i, j \in 1..Len(s) : i # j => s[i] # s[j]
Terminated == pc \in {"done", "failed"}
childFetches == SelectSeq(fetchLog, LAMBDA e : e[1] = "child")
fetchedUrls == [k \in 1..Len(fetchLog) |-> fetchLog[k][2]]

\* ------------------------------------------------------------------
\* Claims
\* ------------------------------------------------------------------
\* C1: during one run of fetchSitemapUrls no URL is fetched more than once
\* (seed, queued robots-discovered sitemaps and index children alike).
C1_NoUrlFetchedTwice == NoDuplicates(fetchedUrls)

\* C2: the urls sequence returned by fetchSitemapUrls never contains the same
\* URL twice.
C2_ResultDeduplicated == pc = "done" => NoDuplicates(result.urls)

\* C3: with a limit configured the returned urls have at most limit entries
\* and are a prefix, in document order, of the URLs returned without a limit.
C3_LimitCapsPrefix ==
  (pc = "done" /\ limit # 0) =>
     /\ Len(result.urls) <= limit
     /\ IsPrefix(result.urls, unlimitedUrls(result.source))
C3_Witness ==
  /\ pc = "done" /\ limit # 0
  /\ Len(result.urls) = limit
  /\ Len(unlimitedUrls(result.source)) > limit

\* C4: in index expansion no child is fetched once the accumulated leaf URLs
\* have reached the limit, and the result then holds exactly limit URLs (the
\* children fetched are the shortest prefix of the children that reaches it).
C4_StopsAtLimit ==
  /\ (pc = "child" /\ limit # 0) => Len(all) < limit
  /\ (pc = "done" /\ limit # 0 /\ fetchTextMaybeGzip(result.source).isIndex
        /\ Len(unlimitedUrls(result.source)) >= limit) =>
       LET m == Len(childFetches)
       IN /\ Len(result.urls) = limit
          /\ m >= 1
          /\ Len(accumulated(result.source, m)) >= limit
          /\ Len(accumulated(result.source, m - 1)) < limit
\* the worked example: 3 children of 10 URLs, limit 15: 15 URLs returned and
\* the third child never fetched
C4_Witness ==
  /\ pc = "done"
  /\ docs = ExampleWorld
  /\ Len(result.urls) = 15
  /\ childFetches = <<<<"child", ExampleChildren[1]>>, <<"child", ExampleChildren[2]>>>>

\* C5: fetchSitemapUrls terminates, with a result or an error, after a bounded
\* number of fetches (seed, robots.txt, the robots-discovered sitemaps and the
\* children of one index).
C5_Terminates ==
  /\ [](Len(fetchLog) <= 2 + MaxSitemaps + indexLimit)
  /\ <>Terminated
\* a sitemap index that lists itself as a child has been expanded
C5_Witness ==
  /\ pc = "done"
  /\ result.source = url
  /\ \E k \in 1..Len(child) : child[k] = url
  /\ \E k \in 1..Len(fetchLog) : fetchLog[k] = <<"child", url>>

\* the robots-discovered alternates of the seed, and the first that resolves
alternates ==
  LET r == <<url[1], "robots.txt">>
  IN IF r \in DOMAIN docs /\ docs[r].ok THEN docs[r].sitemaps ELSE <<>>
resolvingAlternates == {k \in 1..Len(alternates) : fetchTextMaybeGzip(alternates[k]).ok}
firstAlternate ==
  alternates[CHOOSE k \in resolvingAlternates : \A j \in resolvingAlternates : k <= j]

\* C6: if the seed fetch fails and robots.txt of the seed's host lists a
\* sitemap that resolves, the run returns that sitemap's leaf URLs with source
\* set to it, and raises no error.
C6_RobotsFallback ==
  (Terminated /\ ~fetchTextMaybeGzip(url).ok /\ resolvingAlternates # {}) =>
     /\ pc = "done"
     /\ thrown = 0
     /\ result.source = firstAlternate
     /\ result.urls = truncate(unlimitedUrls(firstAlternate), limit)
C6_Witness ==
  /\ pc = "done"
  /\ ~fetchTextMaybeGzip(url).ok
  /\ result.source # url
  /\ Len(result.urls) > 0

\* C7: robots.txt discovery is invoked at most once per resolution run.
C7_DiscoverAtMostOnce == robotsCalls <= 1
\* discovery ran and two queued URLs failed after it
C7_Witness ==
  /\ pc = "failed"
  /\ robotsCalls = 1
  /\ Len(errLog) = 3

\* C8: when the queue empties without a result, the error thrown carries the
\* first error encountered in the run, not a later one.
C8_FirstErrorThrown ==
  pc = "failed" => (Len(errLog) >= 1 /\ thrown = errLog[1])
C8_Witness ==
  /\ pc = "failed"
  /\ Len(errLog) >= 2
  /\ errLog[Len(errLog)] # errLog[1]

\* C9: every relative location is resolved against the URL of the document in
\* which it appears (a leaf location of a child urlset against the child's URL).
C9_ResolvedAgainstOwnDocument ==
  pc = "done" => result.urls = truncate(ownBaseUrls(result.source), limit)

\* C10: normalizeValue(normalizeValue(x)) = normalizeValue(x) for every nested
\* value x built from strings, numbers, booleans, null, sequences and mappings.
C10_NormalizeIdempotent == nphase = "twice" => nv2 = nv1
\* a nested value that normalization changed (an element converted and the
\* elements reordered) has been normalized twice
C10_Witness ==
  /\ nphase = "twice"
  /\ nv[1] = "arr"
  /\ \E k \in 1..Len(nv[2]) : nv[2][k][1] \in {"arr", "obj"}
  /\ \E k \in 1..Len(nv[2]) : normalizeValue(nv[2][k]) # nv[2][k]
  /\ nv1[2] # [k \in 1..Len(nv[2]) |-> normalizeValue(nv[2][k])]

\* C11: simpleDiff(x, x, ignore) returns no changed field, for every snapshot
\* x and every ignore list.
C11_DiffReflexive == (dphase = "done" /\ da = db) => dchanged = <<>>
\* a snapshot with two fields, one holding a sequence with a mapping, has been
\* compared with itself under an empty ignore list
C11_Witness ==
  /\ dphase = "done"
  /\ da = db
  /\ dignore = <<>>
  /\ Len(objectKeys(da)) = 2
  /\ \E f \in {getProperty(da, KeyA)} :
        f[1] = "arr" /\ \E i \in 1..Len(f[2]) : f[2][i][1] = "obj"

\* the top-level keys of a snapshot, and the serialized normalized value it
\* holds under a key (undefined when it has none)
topLevelKeys(x) == {x[2][i][1] : i \in 1..Len(x[2])}
serializedField(x, k) ==
  IF k \in topLevelKeys(x) THEN jsonStringify(normalizeValue(getProperty(x, k))) ELSE Undef
Range(s) == {s[i] : i \in 1..Len(s)}

\* C12: simpleDiff(prev, curr, ignore) returns exactly the top-level keys of
\* keys(prev) \cup keys(curr) that are not in ignore and whose serialized
\* normalized values differ: an ignored key is never reported, a nested
\* difference is reported as its top-level key only, diff({a:1},{a:2},[]) is
\* {a} and with ignore [a] it is empty.
C12_DiffExact ==
  dphase = "done" =>
    /\ Range(dchanged) =
         {k \in topLevelKeys(da) \cup topLevelKeys(db) :
            k \notin Range(dignore) /\ serializedField(da, k) # serializedField(db, k)}
    /\ NoDuplicates(dchanged)
    /\ (da = Obj(<<<<KeyA, One>>>>) /\ db = Obj(<<<<KeyA, Two>>>>)) =>
         dchanged = IF dignore = <<KeyA>> THEN <<>> ELSE <<KeyA>>
\* two snapshots that differ inside the mapping held by field a, and in the
\* ignored field b, have been compared
C12_Witness ==
  /\ dphase = "done"
  /\ da = Obj(<<<<KeyA, Obj(<<<<KeyK, One>>>>)>>, <<KeyB, One>>>>)
  /\ db = Obj(<<<<KeyA, Obj(<<<<KeyK, Two>>>>)>>, <<KeyB, Two>>>>)
  /\ dignore = <<KeyB>>
  /\ dchanged = <<KeyA>>

\* s and t hold the same elements the same number of times
occurrences(s, x) == Cardinality({i \in 1..Len(s) : s[i] = x})
IsPermutation(s, t) ==
  /\ Len(s) = Len(t)
  /\ \A i \in 1..Len(s) : occurrences(s, s[i]) = occurrences(t, s[i])
\* two snapshots with the same fields, every field equal or holding a
\* permutation of the other's sequence
permutedSnapshots(x, y) ==
  /\ x[1] = "obj" /\ y[1] = "obj"
  /\ topLevelKeys(x) = topLevelKeys(y)
  /\ \A k \in topLevelKeys(x) :
       LET f == getProperty(x, k)
           g == getProperty(y, k)
       IN f = g \/ (f[1] = "arr" /\ g[1] = "arr" /\ IsPermutation(f[2], g[2]))

\* C13: for two snapshots whose fields hold sequences that are permutations
\* of each other (of scalars, of mappings or of nested sequences) simpleDiff
\* reports no changed field.
C13_OrderInsensitive ==
  (dphase = "done" /\ permutedSnapshots(da, db)) => dchanged = <<>>

\* the delays baseMs * 1, ..., baseMs * n
linearDelays(n) == [k \in 1..n |-> fbaseMs * k]
allFailed(n) == \A k \in 1..n : ~fcalls[k]

\* C14: withRetry invokes the operation at most tries times (default 3),
\* returns the first successful result without a further attempt, waits
\* baseMs * i after failed attempt i for every i < tries and not after the last
\* attempt, and throws once all tries attempts have failed.
C14_RetryBackoff ==
  /\ Len(fcalls) <= ftries
  /\ allFailed(Len(fcalls) - 1)
  /\ fpc \in {"call", "delay"} => allFailed(Len(fcalls))
  /\ fpc = "delay" => Len(fcalls) < ftries /\ fdelays = linearDelays(Len(fcalls) - 1)
  /\ fpc = "call" => fdelays = linearDelays(fi - 1) \/ fi > ftries
  /\ fpc \in {"returned", "text", "httpError"} =>
       /\ fcalls[Len(fcalls)]
       /\ fdelays = linearDelays(Len(fcalls) - 1)
  /\ fpc = "thrown" =>
       /\ Len(fcalls) = ftries
       /\ allFailed(ftries)
       /\ fdelays = linearDelays(IF ftries = 0 THEN 0 ELSE ftries - 1)
\* with the default options: two failures, waits of 800 and 1600 ms, then
\* success on the third attempt
C14_Witness ==
  /\ ftries = DefaultTries /\ fbaseMs = DefaultBaseMs
  /\ fdelays = <<800, 1600>>
  /\ fpc = "returned"
  /\ fcalls = <<FALSE, FALSE, TRUE>>

\* C15: fetchTextMaybeGzip never fails because of decompression: when the
\* response is declared or sniffed as gzip and gunzip fails, the call returns
\* the raw bytes decoded as text.
C15_GunzipFallback ==
  /\ fpc # "gunzipError"
  /\ (fcaller = "fetchTextMaybeGzip" /\ fpc \in {"text", "httpError", "gunzipError"}
        /\ fvalue.ok /\ fvalue.buf.inflated = "") =>
       (fpc = "text" /\ fresult = fvalue.buf.text)
\* a corrupt stream that starts with the gzip header, served as
\* application/gzip, has been returned as its raw text
C15_Witness ==
  /\ fcaller = "fetchTextMaybeGzip"
  /\ fpc = "text"
  /\ fvalue.ct = "application/gzip"
  /\ looksLikeGzip(fvalue.buf)
  /\ fvalue.buf.inflated = ""
  /\ fresult = "bad-gz-bytes"

\* the plausibility score of a candidate: +2 visible, +min(10, rows), +3 for a
\* "total" header, +2 for a "grade" header, +20 when a row holds every token
\* of the row-match phrase
min(a, b) == IF a <= b THEN a ELSE b
hasHeaderToken(t, token) ==
  \E i \in 1..Len(t.headers) : includesSeq(toUpperCase(t.headers[i]), token)
plausibilityScore(t, phrase) ==
  (IF t.visible THEN 2 ELSE 0)
  + min(10, Len(t.rows))
  + (IF hasHeaderToken(t, <<"T", "O", "T", "A", "L">>) THEN 3 ELSE 0)
  + (IF hasHeaderToken(t, <<"G", "R", "A", "D", "E">>) THEN 2 ELSE 0)
  + (IF \E r \in 1..Len(t.rows) : looseContains(joinCells(t.rows[r]), phrase) THEN 20 ELSE 0)
\* the first candidate of the highest score
highestScoring(tables, phrase) ==
  CHOOSE k \in 1..Len(tables) :
    /\ \A j \in 1..Len(tables) :
         plausibilityScore(tables[j], phrase) <= plausibilityScore(tables[k], phrase)
    /\ \A j \in 1..(k - 1) :
         plausibilityScore(tables[j], phrase) < plausibilityScore(tables[k], phrase)

\* C16: among the candidate tables of the rendered page the one of the highest
\* plausibility score is selected (the first of equals); given a hidden
\* 50-row table and a visible 5-row table holding the target tokens, both with
\* the requested column, the visible table is selected in either order.
C16_HighestScoreSelected ==
  (tpc \in {"returned", "thrown"} /\ ttarget # 0 /\ (tpc = "thrown" \/ tresult.mode = "playwright")) =>
     /\ ttarget = highestScoring(tdom, tcheck.rowMatch)
     /\ tdom[ttarget] # Hidden50

\* the checks selected for the running process, and whether the k-th failed
selected == todo(GROUP)
failedAt(k) == ~rlog[k].out.ok

\* C17: a failure of one check is caught by the run loop: an error record
\* without data becomes that check's latest file, the summary gets one entry
\* for it with its error and changed = false, every later check is still
\* executed, and the summary finally holds exactly one entry per selected
\* check, in list order.
C17_FailureContained ==
  rphase \in {"loop", "exited"} =>
    /\ Len(summary) = Len(rlog)
    /\ Len(summary) = IF rphase = "exited" THEN Len(selected) ELSE rpos - 1
    /\ \A k \in 1..Len(summary) :
         /\ summary[k].name = selected[k].name
         /\ rlog[k].name = selected[k].name
         /\ failedAt(k) =>
              /\ summary[k].error = rlog[k].out.error
              /\ summary[k].error # ""
              /\ ~summary[k].changed
              /\ summary[k].changedKeys = <<>>
              /\ latest[summary[k].name].data = Undef
              /\ latest[summary[k].name].error = rlog[k].out.error
              /\ latest[summary[k].name].checkedAt = rlog[k].startedAt
\* a run over all three checks has ended: the first check failed and the two
\* after it completed
C17_Witness ==
  /\ rphase = "exited"
  /\ Len(summary) = 3
  /\ failedAt(1) /\ ~failedAt(2) /\ ~failedAt(3)
  /\ summary[3].error = ""

\* the history copy and the webhook post made for the check started at t
historyCopies(name, t) == {h \in history : h[1] = name /\ h[2] = t}
webhookPosts(name, t) ==
  {i \in 1..Len(posts) : posts[i].check = name /\ posts[i].current.checkedAt = t}

\* C18: for every check that completes the latest record is written on every
\* run; a history copy is written and a webhook posted if and only if the
\* payload changed (changedKeys non-empty), the webhook only when WEBHOOK_URL
\* is set; an unchanged or failed check writes no history copy and posts no
\* webhook.
C18_HistoryAndWebhookIffChanged ==
  rphase \in {"loop", "exited"} =>
    \A k \in 1..Len(rlog) :
      LET name == rlog[k].name
          t == rlog[k].startedAt
          changed == ~failedAt(k) /\ summary[k].changedKeys # <<>>
      IN /\ latest[name].checkedAt = t
         /\ ~failedAt(k) => (latest[name].error = "" /\ latest[name].data # Undef)
         /\ summary[k].changed <=> changed
         /\ historyCopies(name, t) = IF changed THEN {<<name, t, latest[name]>>} ELSE {}
         /\ Cardinality(webhookPosts(name, t)) = IF changed /\ WEBHOOK_URL THEN 1 ELSE 0
\* with WEBHOOK_URL set, the second run has completed one check whose payload
\* did not change and one whose payload changed
C18_Witness ==
  /\ rphase = "exited"
  /\ runNo = 2
  /\ WEBHOOK_URL
  /\ \E j, k \in 1..Len(summary) :
       /\ ~failedAt(j) /\ ~summary[j].changed
       /\ historyCopies(rlog[j].name, rlog[j].startedAt) = {}
       /\ summary[k].changed
       /\ webhookPosts(rlog[k].name, rlog[k].startedAt) # {}

\* the sitemap the previous run of the check resolved, when the record it left
\* is the one this run read
seenBy(record) == {e \in seen : e[1] = record.checkedAt}

\* C19: for a sitemap_diff check run on two successive runs, added is exactly
\* the URLs of the current sitemap that were not in the sitemap the previous
\* run saw and removed exactly those seen before and absent now; over an
\* unchanged sitemap both are empty and prevCount equals nowCount.
C19_DiffAgainstPreviousRun ==
  rphase \in {"loop", "exited"} =>
    \A k \in 1..Len(rlog) :
      (~failedAt(k) /\ selected[k].type = "sitemap_diff" /\ seenBy(rlog[k].prev) # {}) =>
        LET nowAll == rlog[k].out.all
            prevAll == (CHOOSE e \in seenBy(rlog[k].prev) : TRUE)[2]
            data == latest[rlog[k].name].data
        IN /\ Range(getProperty(data, KeyAdded)[2]) = Range(nowAll) \ Range(prevAll)
           /\ Range(getProperty(data, KeyRemoved)[2]) = Range(prevAll) \ Range(nowAll)
           /\ nowAll = prevAll =>
                getProperty(data, KeyPrevCount) = getProperty(data, KeyNowCount)

\* what the k-th fetched child contributes to all: its locations when it is a
\* urlset, nothing when it is an index or its fetch failed
childDocument(k) ==
  LET u == childFetches[k][2]
  IN IF u \in DOMAIN docs THEN docs[u] ELSE FailDoc(404)
RECURSIVE contributions(_)
contributions(k) ==
  IF k = 0 THEN <<>>
  ELSE contributions(k - 1) \o
       (IF childDocument(k).ok /\ ~childDocument(k).isIndex
        THEN [j \in 1..Len(childDocument(k).locs) |-> resolve(childDocument(k).locs[j], cur)]
        ELSE <<>>)

\* C20: in index expansion at most indexLimit child sitemaps (default 5) are
\* fetched, they are the first indexLimit locations of the index in document
\* order, fetched in that order, and a child that is itself an index
\* contributes no URLs and is not expanded.
C20_IndexExpansionBounded ==
  /\ Len(childFetches) <= indexLimit
  /\ \A k \in 1..Len(childFetches) :
       /\ k <= Len(docs[cur].locs)
       /\ docs[cur].isIndex
       /\ childFetches[k][2] = resolve(docs[cur].locs[k], cur)
  /\ \A i, j \in 1..Len(fetchLog) :
       (i < j /\ fetchLog[i][1] = "child") => fetchLog[j][1] = "child"
  /\ Len(childFetches) > 0 => all = contributions(Len(childFetches))
  /\ (pc = "done" /\ Len(childFetches) > 0 /\ limit = 0) => result.urls = all
\* the index of six children has been expanded with the default indexLimit:
\* five children fetched, the second of them an index, four URLs returned
C20_Witness ==
  /\ pc = "done"
  /\ docs = SixChildrenWorld
  /\ indexLimit = DefaultIndexLimit
  /\ Len(childFetches) = 5
  /\ childDocument(2).isIndex
  /\ Len(result.urls) = 4
  /\ \A k \in 1..Len(fetchLog) : fetchLog[k][2] # SixChildren[6] /\ fetchLog[k][2] # Grandchild

\* the children of the expanded index that were fetched and are urlsets
urlsetChildren == {k \in 1..Len(childFetches) :
                     childDocument(k).ok /\ ~childDocument(k).isIndex}
failedChildren == {k \in 1..Len(childFetches) : ~childDocument(k).ok}
\* the leaf URLs of the urlset children among the first k fetched, in order
RECURSIVE leavesOfUrlsets(_)
leavesOfUrlsets(k) ==
  IF k = 0 THEN <<>>
  ELSE leavesOfUrlsets(k - 1) \o
       (IF k \in urlsetChildren
        THEN [j \in 1..Len(childDocument(k).locs) |-> resolve(childDocument(k).locs[j], cur)]
        ELSE <<>>)

\* the fetches of queued URLs (seed, robots-discovered) that failed
failedQueueFetches == {k \in 1..Len(fetchLog) :
                         /\ fetchLog[k][1] = "queue"
                         /\ ~(fetchLog[k][2] \in DOMAIN docs /\ docs[fetchLog[k][2]].ok)}

\* C21: a child sitemap whose fetch fails during index expansion never fails
\* the resolution: it is not recorded as an error and nothing is raised (the
\* only errors recorded are those of queued URLs), the result is the
\* concatenation of the leaf URLs of the remaining urlset children in order
\* (cut at the limit), and when every child fails the resolution still
\* succeeds, with an empty urls sequence.
C21_BadChildSkipped ==
  Len(childFetches) > 0 =>
     /\ pc \in {"child", "done"}
     /\ thrown = 0
     /\ Len(errLog) = Cardinality(failedQueueFetches)
     /\ pc = "done" =>
          /\ result.source = cur
          /\ result.urls = truncate(leavesOfUrlsets(Len(childFetches)), limit)
          /\ failedChildren = 1..Len(childFetches) => result.urls = <<>>
\* an index whose first child failed and whose second child is a urlset has
\* been resolved to the second child's URLs
C21_Witness ==
  /\ pc = "done"
  /\ Len(childFetches) = 2
  /\ 1 \in failedChildren
  /\ 2 \in urlsetChildren
  /\ Len(result.urls) > 0
\* every child of the index failed and the resolution returned no URL
C21_AllFailedWitness ==
  /\ pc = "done"
  /\ Len(childFetches) = 2
  /\ failedChildren = {1, 2}
  /\ result.urls = <<>>

\* C22: if the first document attempted is fetched successfully but contains
\* no recognizable location, the resolver fetches robots.txt of the seed URL's
\* host, enqueues every Sitemap: directive and continues with them, rather
\* than returning an empty result for the seed document.
C22_EmptyDocumentFallback ==
  (Terminated /\ fetchTextMaybeGzip(url).ok /\ ~fetchTextMaybeGzip(url).isIndex
     /\ fetchTextMaybeGzip(url).locs = <<>>) =>
     /\ robotsCalls = 1
     /\ Len(fetchLog) >= 2
     /\ fetchLog[2] = <<"robots", robotsUrl(url)>>
     /\ ~(pc = "done" /\ result.source = url /\ result.urls = <<>>)

\* the top-level field k of a snapshot: Undef when the snapshot has none
topLevelField(x, k) ==
  IF x[1] = "obj" /\ \E i \in 1..Len(x[2]) : x[2][i][1] = k
  THEN x[2][CHOOSE i \in 1..Len(x[2]) : x[2][i][1] = k][2]
  ELSE Undef
absentAgainstNull(x, y, k) ==
  \/ topLevelField(x, k) = Undef /\ topLevelField(y, k) = Null
  \/ topLevelField(x, k) = Null /\ topLevelField(y, k) = Undef

\* C23: in simpleDiff a top-level field that is absent from one snapshot and
\* null in the other is not reported as changed (absence is treated as null),
\* so a field that disappears diffs the same as a field that becomes null.
C23_AbsentTreatedAsNull ==
  dphase = "done" =>
     \A k \in {KeyA, KeyB} :
        (absentAgainstNull(da, db, k) /\ ~(\E i \in 1..Len(dignore) : dignore[i] = k)) =>
           k \notin Range(dchanged)

\* the characters of s that are digits, commas, periods or minus signs
residue(s) == SelectSeq(s, LAMBDA c : c \in Digits \cup {",", ".", "-"})
withoutCommas(s) == SelectSeq(s, LAMBDA c : c # ",")
allDigits(s) == \A k \in 1..Len(s) : s[k] \in Digits
\* s reads as a decimal number: an optional minus sign, then digits with at
\* most one period among them
isDecimalLiteral(s) ==
  LET body == IF s # <<>> /\ s[1] = "-" THEN Tail(s) ELSE s
  IN \/ body # <<>> /\ allDigits(body)
     \/ \E d \in 1..Len(body) :
          /\ body[d] = "."
          /\ Len(body) > 1
          /\ allDigits(SubSeq(body, 1, d - 1))
          /\ allDigits(SubSeq(body, d + 1, Len(body)))
\* a string with a digit in its residue has been normalized
digitStringNormalized ==
  /\ nphase \in {"once", "twice"}
  /\ nv[1] = "str"
  /\ \E k \in 1..Len(residue(nv[2])) : residue(nv[2])[k] \in Digits

\* C24 as stated: normalizeValue maps every string whose residue, after
\* removing every character other than digits, comma, period and minus,
\* still contains a digit to a number, never to a string; also dates, ranges
\* and versions.
C24_DigitResidueIsNumber == digitStringNormalized => nv1[1] = "num"

\* C24 as amended: a string whose residue contains a digit is mapped to a
\* number (printed without commas) exactly when the residue with its commas
\* removed reads as a decimal number; otherwise (dates, ranges, versions) it
\* is mapped to the whitespace-collapsed, trimmed string.
C24_NumberWhenResidueParses ==
  digitStringNormalized =>
     IF isDecimalLiteral(withoutCommas(residue(nv[2])))
     THEN /\ nv1[1] = "num"
          /\ \A k \in 1..Len(nv1[2]) : nv1[2][k] \in Digits \cup {".", "-"}
          /\ isDecimalLiteral(nv1[2])
     ELSE /\ nv1[1] = "str"
          /\ nv1[2] = trim(collapseWhitespace(nv[2]))
\* the date has been normalized and is still the string
C24_Witness ==
  /\ nphase = "once"
  /\ nv = DateString
  /\ nv1 = DateString
\* a string of a word and a number with a thousands separator became a number
C24_NumberWitness ==
  /\ nphase = "once"
  /\ nv = Str(<<"a", " ", "1", ",", "0", "0", "0">>)
  /\ nv1 = Num(<<"1", "0", "0", "0">>)

\* the column a table-row check asks for, and the tables that have it in a header
requestedColumn ==
  IF tcheck.type = "psa_pop_row" /\ tcheck.column = <<>>
  THEN <<"T", "O", "T", "A", "L">>
  ELSE tcheck.column
tablesWithColumn(tables) ==
  {k \in 1..Len(tables) :
     \E i \in 1..Len(tables[k].headers) :
        includesSeq(toUpperCase(trim(tables[k].headers[i])), toUpperCase(requestedColumn))}
\* the chosen table is the first of them; a row matches when its text holds
\* every token of the row-match phrase
rowMatches(r) == looseContains(joinCells(r), tcheck.rowMatch)
columnOrRowMissing(tables) ==
  \/ tablesWithColumn(tables) = {}
  \/ LET chosen == CHOOSE k \in tablesWithColumn(tables) :
                      \A j \in tablesWithColumn(tables) : k <= j
     IN ~\E r \in 1..Len(tables[chosen].rows) : rowMatches(tables[chosen].rows[r])

\* C25: a table-row check fails with an error, and never returns a snapshot,
\* whenever no candidate table has a header containing the requested column
\* or the chosen table has no row matching the row-match phrase, whichever of
\* the two extraction strategies was reached: the plain fetch returns nothing
\* in that case, and the rendered page, the last strategy, throws.
C25_MissingColumnOrRowFails ==
  /\ (tpc # "html" /\ thtml.ok /\ columnOrRowMissing(thtml.tables)) =>
        tresult.mode # "html"
  /\ (tpc \in {"returned", "thrown"} /\ columnOrRowMissing(tdom)) =>
        tresult.mode # "playwright"
  /\ (tpc \in {"returned", "thrown"} /\ columnOrRowMissing(tdom)
        /\ (~thtml.ok \/ columnOrRowMissing(thtml.tables))) =>
        /\ tpc = "thrown"
        /\ terror # ""
        /\ tresult = NoPayload
\* the plain fetch found the column but no matching row, the rendered page
\* was tried and failed for the same reason
C25_Witness ==
  /\ tpc = "thrown"
  /\ terror = "row not found"
  /\ thtml.ok
  /\ tablesWithColumn(thtml.tables) # {}
  /\ columnOrRowMissing(thtml.tables)
  /\ tablesWithColumn(tdom) # {}
\* neither strategy found a table with the column
C25_NoColumnWitness ==
  /\ tpc = "thrown"
  /\ terror = "column not found"
  /\ thtml.ok
  /\ thtml.tables # <<>>
  /\ tablesWithColumn(thtml.tables) = {}

\* the checks selected for the running process, by GROUP
selectedNames ==
  LET sel == {k \in 1..Len(checks) : GROUP = "" \/ checks[k].group = GROUP}
  IN {checks[k].name : k \in sel}
someCheckFailed == \E k \in 1..Len(rlog) : ~rlog[k].out.ok
reportName == IF GROUP = "" THEN "all" ELSE GROUP

C26_NoFailOnErrorWitness ==
  /\ rphase = "exited"
  /\ ~FAIL_ON_ERROR
  /\ someCheckFailed
  /\ exitCode = 0

\* C27: a response with a non-OK HTTP status is never retried: an attempt is
\* followed by another only when it ended in a transport-level exception, so
\* the HTTP error response is the last request made, fetchTextMaybeGzip
\* throws for it without any further request or delay, and it throws after
\* exactly one request when the first attempt brought the response.
C27_HttpErrorNotRetried ==
  /\ \A k \in 1..(Len(fcalls) - 1) : ~fcalls[k]
  /\ Len(fdelays) <= Cardinality({k \in 1..Len(fcalls) : ~fcalls[k]})
  /\ fpc = "httpError" =>
       /\ ~fvalue.ok
       /\ fcalls[Len(fcalls)]
       /\ Len(fdelays) = Len(fcalls) - 1
       /\ fresult = ""
\* the first request was answered with an HTTP error status and
\* fetchTextMaybeGzip threw after that one request
C27_Witness ==
  /\ fcaller = "fetchTextMaybeGzip"
  /\ fpc = "httpError"
  /\ fvalue.status \in ErrStatuses
  /\ fcalls = <<TRUE>>
  /\ fdelays = <<>>
\* two transport failures were retried, then the HTTP error response ended it
C27_RetriedTransportWitness ==
  /\ fpc = "httpError"
  /\ fcalls = <<FALSE, FALSE, TRUE>>
  /\ Len(fdelays) = 2

\* the check of a given name, and the keys of the data a run stored for it
checkNamed(name) == checks[CHOOSE k \in 1..Len(checks) : checks[k].name = name]
storedKeys(name) == {latest[name].data[2][i][1] : i \in 1..Len(latest[name].data[2])}
\* the check processed k-th in this run succeeded over an error record
succeededAfterFailure(k) ==
  /\ rlog[k].out.ok
  /\ rlog[k].prev.error # ""
  /\ rlog[k].prev.data = Undef

\* C28: after a run in which a check failed (its latest file overwritten by
\* an error record that has no data), the next successful run of that check
\* reports every non-ignored top-level key of the new data as changed,
\* writes a history copy and posts the webhook (when WEBHOOK_URL is set),
\* whatever the data of the last successful run before the failure was.
C28_ChangedAfterFailure ==
  rphase \in {"loop", "exited"} =>
    \A k \in 1..Len(rlog) :
      succeededAfterFailure(k) =>
        LET name == rlog[k].name
            t == rlog[k].startedAt
        IN /\ Range(summary[k].changedKeys) =
                storedKeys(name) \ Range(checkNamed(name).ignoreKeys)
           /\ summary[k].changed
           /\ <<name, t, latest[name]>> \in history
           /\ WEBHOOK_URL =>
                \E i \in 1..Len(posts) :
                   /\ posts[i].check = name
                   /\ posts[i].current = latest[name]
                   /\ posts[i].previous = rlog[k].prev
                   /\ posts[i].changedKeys = summary[k].changedKeys
\* the price check succeeded with price 1, failed in the next run, and has
\* now succeeded again with the same data: the price is reported as changed,
\* a second history copy is written and a second webhook posted
C28_Witness ==
  /\ rphase = "loop"
  /\ Len(rlog) >= 1
  /\ rlog[1].name = "p"
  /\ succeededAfterFailure(1)
  /\ \E h \in history :
       /\ h[1] = "p"
       /\ h[2] < rlog[1].prev.checkedAt
       /\ h[3].data = latest["p"].data
  /\ summary[1].changedKeys = <<KeyPrice>>
  /\ Cardinality({h \in history : h[1] = "p"}) = 2
  /\ Len(posts) = 2
\* the used data directory is the one two runs leave behind
C28_UsedDirectoryReached ==
  /\ rphase = "exited"
  /\ runNo = 2
  /\ UsedDirectory

\* the entry a completed check adds to summary in a step, and the webhook
\* bodies posted in a step
completedInStep == Len(summary') = Len(summary) + 1 /\ summary'[Len(summary')].error = ""
postedInStep == {i \in 1..Len(posts') : i > Len(posts)}

\* C29: within one check the previous record is read before the latest file
\* is overwritten: the changed keys of a completed check are the difference
\* between the data of the record the latest file held before the check and
\* the data written, and the webhook's previous field is the record held
\* before, its current field the record written.
C29_PreviousIsPriorRecord ==
  [][/\ completedInStep =>
          LET e == summary'[Len(summary')]
              before == latest[e.name].data
              after == latest'[e.name].data
          IN /\ latest'[e.name] # latest[e.name]
             /\ Range(e.changedKeys) =
                  {k \in topLevelKeys(before) \cup topLevelKeys(after) :
                     /\ k \notin Range(checkNamed(e.name).ignoreKeys)
                     /\ serializedField(before, k) # serializedField(after, k)}
      /\ \A i \in postedInStep :
           /\ posts'[i].previous = latest[posts'[i].check]
           /\ posts'[i].current = latest'[posts'[i].check]
           /\ posts'[i].previous # posts'[i].current
    ]_vars
\* a webhook has been posted whose previous field is the record an earlier
\* run wrote, with other data than the current record
C29_Witness ==
  /\ runNo = 2
  /\ \E i \in 1..Len(posts) :
       /\ posts[i].previous.data # Undef
       /\ posts[i].previous.checkedAt < posts[i].current.checkedAt
       /\ posts[i].previous.data # posts[i].current.data
       /\ posts[i].current = latest[posts[i].check]

\* the checks that have a record in the latest directory
latestNames == {n \in CheckNames : latest[n] # NoFile}

\* C30: after a run the latest directory holds exactly one record per check
\* selected for that run: the prune step deletes every other latest record
\* and keeps the selected ones, so a run restricted by GROUP deletes the
\* latest records of the checks of other groups; nothing restores them before
\* the next process starts, and there a record stays absent until its own
\* check is processed, which therefore sees no previous snapshot.
C30_LatestHoldsSelectedOnly ==
  /\ [](rphase = "exited" =>
          /\ latestNames = selectedNames
          /\ \A n \in latestNames : latest[n].name = n)
  /\ [][/\ (rphase = "loop" /\ rphase' = "exited") =>
            \A n \in CheckNames :
               latest'[n] = IF n \in selectedNames THEN latest[n] ELSE NoFile
        /\ (rphase = "exited" /\ rphase' = "loop") =>
            /\ latest' = latest
            /\ \A n \in CheckNames \ selectedNames : latest'[n] = NoFile
        /\ (rphase = "loop" /\ Len(summary') = Len(summary) + 1) =>
            \A n \in CheckNames \ {summary'[Len(summary')].name} : latest'[n] = latest[n]
       ]_vars
\* the price check has a history copy from an earlier run, a run of the
\* group "seo" followed, and the price check now ran without a previous
\* snapshot
C30_Witness ==
  /\ runNo = 2
  /\ GROUP = "price"
  /\ Len(rlog) >= 1
  /\ rlog[1].name = "p"
  /\ rlog[1].prev = NoFile
  /\ \E h \in history : h[1] = "p" /\ h[2] < rlog[1].startedAt
  /\ reports["seo"] # <<>>
\* a run of the group "price" has deleted the latest record that an earlier
\* run wrote for the sitemap check
C30_PrunedWitness ==
  /\ rphase = "exited"
  /\ GROUP = "price"
  /\ latest["s"] = NoFile
  /\ \E h \in history : h[1] = "s"
  /\ latestNames = {"p", "a"}

====
